---- MODULE Spec2Model ----
(***************************************************************************)
(* F1 UDP telemetry: the packet decoders and the F1TelemetryClient of       *)
(* f1_telemetry/client.py, the F1Dispatcher of f1_dispatcher/dispatcher.py,*)
(* the telemetry decoder of f1_to_serial.py and the RaceControlPanel of    *)
(* race_control_panel/race_control_panel.py.                               *)
(*                                                                         *)
(* A datagram is a sequence of bytes (0..255); Python's 0-based d[k] is    *)
(* d[k+1] here.  Values wider than 16 bits (u32, u64, f32, f64) are kept   *)
(* as their little-endian 16-bit limbs, i.e. as the bit pattern the wire   *)
(* carries: the model checker's integers are 32-bit.                       *)
(***************************************************************************)
EXTENDS Integers, Sequences, FiniteSets, TLC

VARIABLES
    handlers,   \* F1Dispatcher._handlers: packet type code -> list of handlers
    sock,       \* F1Dispatcher._socket: 0 is None, n > 0 the n-th socket created
    running,    \* F1Dispatcher._running
    thread,     \* F1Dispatcher._thread: 0 is None, n > 0 the n-th thread created
    th,         \* the receive threads started so far: position and locals of _listen
    sockets,    \* every socket created so far: "bound", "unbound" or "closed"
    op,         \* the owner thread's last call of start() or stop()
    timeouts,   \* how many joins of stop() have timed out so far
    pin,        \* decoder harness: the call made (function, buffer, car index)
    pout,       \* decoder harness: what the call returned, or raised
    client_data,    \* F1TelemetryClient.data: the F1GameData
    callbacks,      \* F1TelemetryClient._callbacks
    cthread,        \* F1TelemetryClient: position and locals of its receive thread
    received,       \* F1TelemetryClient: the datagrams _process_packet was given so far
    buttons,                \* Panel._buttons: _state and _prev_state of each Button
    race_mode,              \* RaceControlPanel._race_mode
    launch_control_on,      \* RaceControlPanel._launch_control_on
    ignition_held_since,    \* RaceControlPanel._ignition_held_since
    now,                    \* what time.time() returned in the last update()
    effects,                \* the sounds played and processes spawned by the last update()
    pressed_since           \* the time of the first of the updates that saw ignition
                            \* pressed without a break up to the last one

dispatcherVars == <<handlers, sock, running, thread, th, sockets, op, timeouts>>

clientVars == <<client_data, callbacks, cthread, received>>

panelVars == <<buttons, race_mode, launch_control_on, ignition_held_since, now, effects,
               pressed_since>>

\* What the decoders and the dispatcher leave alone
otherVars == <<clientVars, panelVars>>

vars == <<dispatcherVars, pin, pout, clientVars, panelVars>>

(***************************************************************************)
(* Python primitives                                                       *)
(***************************************************************************)

\* Python's None, as a record so that it compares with decoded records
None == [kind |-> "None"]

Min(a, b) == IF a < b THEN a ELSE b

Max(a, b) == IF a > b THEN a ELSE b

\* A slice bound, normalised as Python does: negative counts from the end,
\* and the result is clamped into 0..n
PyIdx(n, k) == IF k < 0 THEN Max(k + n, 0) ELSE Min(k, n)

\* d[a:b]
PySlice(d, a, b) ==
    LET lo == PyIdx(Len(d), a)
        hi == PyIdx(Len(d), b)
    IN  IF hi <= lo THEN <<>> ELSE SubSeq(d, lo + 1, hi)

\* d[a:]
PyTail(d, a) == PySlice(d, a, Len(d))

\* An exception leaving an expression
Raised(exc) == [kind |-> "raise", exc |-> exc]

\* try: <result> except <caught>: return None
Except(result, caught) ==
    IF result.kind = "raise" /\ result.exc \in caught THEN None ELSE result

\* Every read of the decoder stays inside d.  `ends` holds, for each d[k],
\* k+1 and, for each struct.unpack(fmt, d[a:b]), b: d[k] raises IndexError
\* when k >= len(d) and unpack raises struct.error when the slice is short.
Readable(d, ends) == \A e \in ends : e <= Len(d)

\* The exception of the first read that fails (the decoders read in ascending
\* offset order); `idx` are the ends that belong to d[k] reads
ReadError(d, ends, idx) ==
    LET first == CHOOSE e \in ends : e > Len(d) /\ \A f \in ends : f > Len(d) => e <= f
    IN  IF first \in idx THEN "IndexError" ELSE "struct.error"

B(d, k) == d[k + 1]

Bool(d, k) == d[k + 1] # 0

I8(d, k) == IF d[k + 1] >= 128 THEN d[k + 1] - 256 ELSE d[k + 1]

U16(d, k) == d[k + 1] + 256 * d[k + 2]

I16(d, k) == IF U16(d, k) >= 32768 THEN U16(d, k) - 65536 ELSE U16(d, k)

\* "<I": the value is limbs[1] + 65536 * limbs[2]
U32(d, k) == <<U16(d, k), U16(d, k + 2)>>

\* "<Q"
U64(d, k) == <<U16(d, k), U16(d, k + 2), U16(d, k + 4), U16(d, k + 6)>>

\* "<f": the IEEE-754 bit pattern
F32(d, k) == [f32bits |-> U32(d, k)]

\* "<d"
F64(d, k) == [f64bits |-> U64(d, k)]

\* x / 32767.0, kept exact as a fraction
Div32767(x) == [num |-> x, den |-> 32767]

\* b.split(b"\x00")[0]: the bytes before the first NUL
RECURSIVE UntilNul(_)
UntilNul(s) ==
    IF s = <<>> \/ Head(s) = 0 THEN <<>> ELSE <<Head(s)>> \o UntilNul(Tail(s))

\* TyreData(a, b, c, d): positional, in the order (RL, RR, FL, FR)
TyreData(a, b, c, e) ==
    [rear_left |-> a, rear_right |-> b, front_left |-> c, front_right |-> e]

Vector3(x, y, z) == [x |-> x, y |-> y, z |-> z]

(***************************************************************************)
(* Enumerations (packets.py).  An IntEnum member and a bare int are both   *)
(* [enum, value]; `value` is what the member compares equal to.            *)
(***************************************************************************)

PacketTypeValues == 0 .. 14

WeatherValues == 0 .. 5

SessionTypeValues == 0 .. 13

TrackValues == 0 .. 32

TyreCompoundValues == {16, 17, 18, 7, 8}

FuelMixValues == 0 .. 3

ERSModeValues == 0 .. 3

VehicleFlagValues == 0 .. 4

PitStatusValues == 0 .. 2

TeamValues == 0 .. 9

EnumValues(name) ==
    CASE name = "PacketType" -> PacketTypeValues
      [] name = "Weather" -> WeatherValues
      [] name = "SessionType" -> SessionTypeValues
      [] name = "Track" -> TrackValues
      [] name = "TyreCompound" -> TyreCompoundValues
      [] name = "FuelMix" -> FuelMixValues
      [] name = "ERSMode" -> ERSModeValues
      [] name = "VehicleFlag" -> VehicleFlagValues
      [] name = "PitStatus" -> PitStatusValues
      [] name = "Team" -> TeamValues

\* A bare int
RawInt(v) == [enum |-> "int", value |-> v]

\* EnumClass(v): the member, or ValueError when v is no member's value
EnumCall(name, v) ==
    IF v \in EnumValues(name) THEN [enum |-> name, value |-> v]
    ELSE [enum |-> "ValueError", value |-> v]

\* EnumClass(v) if <cond> else v
EnumIf(name, cond, v) == IF cond THEN EnumCall(name, v) ELSE RawInt(v)

\* The constructor call: a ValueError of one of its enum arguments leaves it
Checked(rec, enumFields) ==
    IF \E f \in enumFields : rec[f].enum = "ValueError" THEN Raised("ValueError")
    ELSE rec

\* except (struct.error, ValueError, IndexError)
DecoderErrors == {"struct.error", "ValueError", "IndexError"}

\* except (struct.error, ValueError), parse_header
HeaderErrors == {"struct.error", "ValueError"}

(***************************************************************************)
(* Decoders (f1_telemetry/client.py)                                       *)
(***************************************************************************)

\* Off by one: 15 is handed to PacketType()
header_packet_type_le15(v) == EnumIf("PacketType", v <= 15, v)

\* Every code is folded onto a PacketType member
header_packet_type_wrap(v) == EnumCall("PacketType", v % 15)

\* PacketType(u[5]) if u[5] <= 14 else u[5]
header_packet_type(v) == EnumIf("PacketType", v <= 14, v)

\* try: struct.unpack("<HBBBBBQfIIBB", data[:29]) and the constructor
unpack_header(data) ==
    Except(
    LET u == PySlice(data, 0, 29)
    IN  IF Len(u) # 29 THEN Raised("struct.error")
        ELSE Checked([kind |-> "PacketHeader",
                     packet_format |-> U16(u, 0),
                     game_year |-> B(u, 2),
                     game_major_version |-> B(u, 3),
                     game_minor_version |-> B(u, 4),
                     packet_version |-> B(u, 5),
                     packet_type |-> header_packet_type(B(u, 6)),
                     session_uid |-> U64(u, 7),
                     session_time |-> F32(u, 15),
                     frame_identifier |-> U32(u, 19),
                     overall_frame_identifier |-> U32(u, 23),
                     player_car_index |-> B(u, 27),
                     secondary_player_car_index |-> B(u, 28)],
                    {"packet_type"}),
    HeaderErrors)

\* Off by one: a buffer of exactly 29 bytes is refused
parse_header_le29(data) == IF Len(data) <= 29 THEN None ELSE unpack_header(data)

parse_header(data) == IF Len(data) < 29 THEN None ELSE unpack_header(data)

\* The byte at offset is read for both trailing fields
session_network_game_at_offset(d, offset) ==
    IF offset < Len(d) THEN Bool(d, offset) ELSE FALSE

\* safety_car_status = d[offset] if offset < len(d) else 0
session_safety_car_status(d, offset) ==
    IF offset < Len(d) THEN B(d, offset) ELSE 0

\* network_game = bool(d[offset + 1]) if offset + 1 < len(d) else False
session_network_game(d, offset) ==
    IF offset + 1 < Len(d) THEN Bool(d, offset + 1) ELSE FALSE

parse_session(data) ==
    IF Len(data) < 29 + 50 THEN None
    ELSE LET d == PyTail(data, 29)
             weather == B(d, 0)
             session_type == B(d, 6)
             track_id == I8(d, 7)
             num_marshal_zones == B(d, 18)
             offset == 19 + (21 * num_marshal_zones)
             ends == {1, 2, 3, 4, 6, 7, 8, 9, 11, 13, 14, 15, 16, 17, 18, 19}
             idx == {1, 4, 7, 9, 14, 15, 16, 17, 18, 19}
         IN  Except(
             IF ~Readable(d, ends)
             THEN Raised(ReadError(d, ends, idx))
             ELSE Checked(
               [kind |-> "SessionData",
                weather |-> EnumIf("Weather", weather <= 5, weather),
                track_temperature |-> I8(d, 1),
                air_temperature |-> I8(d, 2),
                total_laps |-> B(d, 3),
                track_length |-> U16(d, 4),
                session_type |-> EnumIf("SessionType", session_type <= 13, session_type),
                track |-> EnumIf("Track", 0 <= track_id /\ track_id <= 32, track_id),
                formula |-> B(d, 8),
                session_time_left |-> U16(d, 9),
                session_duration |-> U16(d, 11),
                pit_speed_limit |-> B(d, 13),
                game_paused |-> Bool(d, 14),
                is_spectating |-> Bool(d, 15),
                spectator_car_index |-> B(d, 16),
                sli_pro_support |-> Bool(d, 17),
                num_marshal_zones |-> num_marshal_zones,
                safety_car_status |-> session_safety_car_status(d, offset),
                network_game |-> session_network_game(d, offset),
                num_weather_forecast_samples |-> 0, forecast_accuracy |-> 0,
                ai_difficulty |-> 0, season_link_identifier |-> 0,
                weekend_link_identifier |-> 0, session_link_identifier |-> 0,
                pit_stop_window_ideal_lap |-> 0, pit_stop_window_latest_lap |-> 0,
                pit_stop_rejoin_position |-> 0, steering_assist |-> FALSE,
                braking_assist |-> 0, gearbox_assist |-> 0, pit_assist |-> FALSE,
                pit_release_assist |-> FALSE, ers_assist |-> FALSE,
                drs_assist |-> FALSE, dynamic_racing_line |-> 0,
                dynamic_racing_line_type |-> 0, game_mode |-> 0, rule_set |-> 0,
                time_of_day |-> 0, session_length |-> 0],
               {"weather", "session_type", "track"}),
             DecoderErrors)

\* parse_lap_data, try and except, on d = data[offset:offset + lap_size]
lap_record(d) ==
    Except(
    LET ends == {4, 8, 10, 11, 13, 14, 16, 18, 22, 26, 30} \cup (31 .. 45) \cup {47, 49, 50}
        idx == {11, 14} \cup (31 .. 45) \cup {50}
    IN
    IF ~Readable(d, ends)
    THEN Raised(ReadError(d, ends, idx))
    ELSE LET sector1_ms == U16(d, 8)
             sector1_mins == B(d, 10)
             sector2_ms == U16(d, 11)
             sector2_mins == B(d, 13)
             pit_status == B(d, 32)
         IN  Checked(
               [kind |-> "LapData",
                last_lap_time_ms |-> U32(d, 0),
                current_lap_time_ms |-> U32(d, 4),
                sector1_time_ms |-> sector1_ms + (sector1_mins * 60000),
                sector2_time_ms |-> sector2_ms + (sector2_mins * 60000),
                delta_to_car_in_front_ms |-> U16(d, 14),
                delta_to_race_leader_ms |-> U16(d, 16),
                lap_distance |-> F32(d, 18),
                total_distance |-> F32(d, 22),
                safety_car_delta |-> F32(d, 26),
                position |-> B(d, 30),
                current_lap |-> B(d, 31),
                pit_status |-> EnumIf("PitStatus", pit_status <= 2, pit_status),
                num_pit_stops |-> B(d, 33),
                sector |-> B(d, 34),
                current_lap_invalid |-> Bool(d, 35),
                penalties |-> B(d, 36),
                total_warnings |-> B(d, 37),
                corner_cutting_warnings |-> B(d, 38),
                num_unserved_drive_through |-> B(d, 39),
                num_unserved_stop_go |-> B(d, 40),
                grid_position |-> B(d, 41),
                driver_status |-> B(d, 42),
                result_status |-> B(d, 43),
                pit_lane_timer_active |-> Bool(d, 44),
                pit_lane_time_in_lane_ms |-> U16(d, 45),
                pit_stop_timer_ms |-> U16(d, 47),
                pit_stop_should_serve_penalty |-> Bool(d, 49)],
               {"pit_status"}),
    DecoderErrors)

parse_lap_data(data, car_index) ==
    LET header_size == 29
        lap_size == 57
        offset == header_size + (car_index * lap_size)
    IN  IF Len(data) < offset + lap_size THEN None
        ELSE lap_record(PySlice(data, offset, offset + lap_size))

\* parse_car_telemetry, try and except
telemetry_record(d) ==
    Except(
    LET ends == {2, 6, 10, 14, 15, 16, 18, 19, 20, 22, 30, 34, 38, 40, 56, 60}
        idx == {15, 19, 20}
    IN
    IF ~Readable(d, ends)
    THEN Raised(ReadError(d, ends, idx))
    ELSE [kind |-> "CarTelemetry",
          speed |-> U16(d, 0),
          throttle |-> F32(d, 2),
          steer |-> F32(d, 6),
          brake |-> F32(d, 10),
          clutch |-> B(d, 14),
          gear |-> I8(d, 15),
          engine_rpm |-> U16(d, 16),
          drs |-> Bool(d, 18),
          rev_lights_percent |-> B(d, 19),
          rev_lights_bit_value |-> U16(d, 20),
          brake_temperature |->
              TyreData(U16(d, 22), U16(d, 24), U16(d, 26), U16(d, 28)),
          tyre_surface_temperature |->
              TyreData(B(d, 30), B(d, 31), B(d, 32), B(d, 33)),
          tyre_inner_temperature |->
              TyreData(B(d, 34), B(d, 35), B(d, 36), B(d, 37)),
          engine_temperature |-> U16(d, 38),
          tyre_pressure |->
              TyreData(F32(d, 40), F32(d, 44), F32(d, 48), F32(d, 52)),
          surface_type |-> <<B(d, 56), B(d, 57), B(d, 58), B(d, 59)>>],
    DecoderErrors)

parse_car_telemetry(data, car_index) ==
    LET header_size == 29
        telemetry_size == 60
        offset == header_size + (car_index * telemetry_size)
    IN  IF Len(data) < offset + telemetry_size THEN None
        ELSE telemetry_record(PySlice(data, offset, offset + telemetry_size))

\* A range test in place of the membership test: 0..6 and 9..15 reach TyreCompound()
status_tyre_compound_le18(v) == EnumIf("TyreCompound", v <= 18, v)

\* TyreCompound(tyre_compound) if tyre_compound in (7, 8, 16, 17, 18) else tyre_compound
status_tyre_compound(v) == EnumIf("TyreCompound", v \in {7, 8, 16, 17, 18}, v)

\* parse_car_status, try and except
status_record(d) ==
    Except(
    LET ends == (1 .. 5) \cup {9, 13, 17, 19, 21, 22, 23, 25} \cup (26 .. 29) \cup {33, 34, 38, 42, 46}
        idx == (1 .. 5) \cup {22, 23} \cup (26 .. 29) \cup {34}
    IN
    IF ~Readable(d, ends)
    THEN Raised(ReadError(d, ends, idx))
    ELSE LET fuel_mix == B(d, 2)
             flag == B(d, 28)
             ers_mode == B(d, 33)
         IN  Checked(
               [kind |-> "CarStatus",
                traction_control |-> B(d, 0),
                anti_lock_brakes |-> Bool(d, 1),
                fuel_mix |-> EnumIf("FuelMix", fuel_mix <= 3, fuel_mix),
                front_brake_bias |-> B(d, 3),
                pit_limiter |-> Bool(d, 4),
                fuel_remaining |-> F32(d, 5),
                fuel_capacity |-> F32(d, 9),
                fuel_remaining_laps |-> F32(d, 13),
                max_rpm |-> U16(d, 17),
                idle_rpm |-> U16(d, 19),
                max_gears |-> B(d, 21),
                drs_allowed |-> Bool(d, 22),
                drs_activation_distance |-> U16(d, 23),
                actual_tyre_compound |-> status_tyre_compound(B(d, 25)),
                visual_tyre_compound |-> B(d, 26),
                tyre_age_laps |-> B(d, 27),
                vehicle_flag |-> EnumIf("VehicleFlag", flag <= 4, flag),
                engine_power_ice |-> 0,
                engine_power_mguk |-> 0,
                ers_store_energy |-> F32(d, 29),
                ers_deploy_mode |-> EnumIf("ERSMode", ers_mode <= 3, ers_mode),
                ers_harvested_this_lap_mguk |-> F32(d, 34),
                ers_harvested_this_lap_mguh |-> F32(d, 38),
                ers_deployed_this_lap |-> F32(d, 42),
                network_paused |-> FALSE],
               {"fuel_mix", "actual_tyre_compound", "vehicle_flag", "ers_deploy_mode"}),
    DecoderErrors)

parse_car_status(data, car_index) ==
    LET header_size == 29
        status_size == 55
        offset == header_size + (car_index * status_size)
    IN  IF Len(data) < offset + status_size THEN None
        ELSE status_record(PySlice(data, offset, offset + status_size))

\* parse_car_damage, try and except
damage_record(d) ==
    Except(
    LET ends == {16, 20, 24} \cup (25 .. 40)
        idx == 25 .. 40
    IN
    IF ~Readable(d, ends)
    THEN Raised(ReadError(d, ends, idx))
    ELSE [kind |-> "CarDamage",
          tyre_wear |-> TyreData(F32(d, 0), F32(d, 4), F32(d, 8), F32(d, 12)),
          tyre_damage |-> TyreData(B(d, 16), B(d, 17), B(d, 18), B(d, 19)),
          brakes_damage |-> TyreData(B(d, 20), B(d, 21), B(d, 22), B(d, 23)),
          front_left_wing_damage |-> B(d, 24),
          front_right_wing_damage |-> B(d, 25),
          rear_wing_damage |-> B(d, 26),
          floor_damage |-> B(d, 27),
          diffuser_damage |-> B(d, 28),
          sidepod_damage |-> B(d, 29),
          drs_fault |-> Bool(d, 30),
          ers_fault |-> Bool(d, 31),
          gearbox_damage |-> B(d, 32),
          engine_damage |-> B(d, 33),
          engine_mguh_wear |-> B(d, 34),
          engine_es_wear |-> B(d, 35),
          engine_ce_wear |-> B(d, 36),
          engine_ice_wear |-> B(d, 37),
          engine_mguk_wear |-> B(d, 38),
          engine_tc_wear |-> B(d, 39),
          engine_blown |-> FALSE,
          engine_seized |-> FALSE],
    DecoderErrors)

parse_car_damage(data, car_index) ==
    LET header_size == 29
        damage_size == 42
        offset == header_size + (car_index * damage_size)
    IN  IF Len(data) < offset + damage_size THEN None
        ELSE damage_record(PySlice(data, offset, offset + damage_size))

\* parse_car_motion, try and except
motion_record(d) ==
    Except(
    LET ends == {12, 24, 30, 36, 48, 60}
        idx == {}
    IN
    IF ~Readable(d, ends)
    THEN Raised(ReadError(d, ends, idx))
    ELSE [kind |-> "CarMotion",
          world_position |-> Vector3(F32(d, 0), F32(d, 4), F32(d, 8)),
          world_velocity |-> Vector3(F32(d, 12), F32(d, 16), F32(d, 20)),
          world_forward_dir |->
              Vector3(Div32767(I16(d, 24)), Div32767(I16(d, 26)), Div32767(I16(d, 28))),
          world_right_dir |->
              Vector3(Div32767(I16(d, 30)), Div32767(I16(d, 32)), Div32767(I16(d, 34))),
          g_force_lateral |-> F32(d, 36),
          g_force_longitudinal |-> F32(d, 40),
          g_force_vertical |-> F32(d, 44),
          yaw |-> F32(d, 48),
          pitch |-> F32(d, 52),
          roll |-> F32(d, 56)],
    DecoderErrors)

parse_car_motion(data, car_index) ==
    LET header_size == 29
        motion_size == 60
        offset == header_size + (car_index * motion_size)
    IN  IF Len(data) < offset + motion_size THEN None
        ELSE motion_record(PySlice(data, offset, offset + motion_size))

\* bytes.decode("utf-8", errors="replace") never raises; the text is kept as
\* the bytes it was decoded from
DecodeReplace(bytes) == [utf8 |-> bytes]

\* parse_participants, try and except
participant_record(d) ==
    Except(
    LET ends == (1 .. 7) \cup {56, 57, 58}
        idx == (1 .. 7) \cup {56, 57, 58}
    IN
    IF ~Readable(d, ends)
    THEN Raised(ReadError(d, ends, idx))
    ELSE LET team_id == B(d, 3)
         IN  Checked(
               [kind |-> "ParticipantData",
                ai_controlled |-> Bool(d, 0),
                driver_id |-> B(d, 1),
                network_id |-> B(d, 2),
                team |-> EnumIf("Team", team_id <= 9, team_id),
                my_team |-> Bool(d, 4),
                race_number |-> B(d, 5),
                nationality |-> B(d, 6),
                name |-> DecodeReplace(UntilNul(PySlice(d, 7, 55))),
                telemetry_public |-> Bool(d, 55),
                show_online_names |-> Bool(d, 56),
                tech_level |-> 0,
                platform |-> B(d, 57)],
               {"team"}),
    DecoderErrors)

\* The count byte before the records is not skipped
parse_participants_noprefix(data, car_index) ==
    LET header_size == 29
        participant_size == 58
        offset == header_size + (car_index * participant_size)
    IN  IF Len(data) < offset + participant_size THEN None
        ELSE participant_record(PySlice(data, offset, offset + participant_size))

parse_participants(data, car_index) ==
    LET header_size == 29
        participant_size == 58
        offset == header_size + 1 + (car_index * participant_size)
    IN  IF Len(data) < offset + participant_size THEN None
        ELSE participant_record(PySlice(data, offset, offset + participant_size))

\* parse_car_setup, try and except
setup_record(d) ==
    Except(
    LET ends == (1 .. 4) \cup {8, 12, 16, 20} \cup (21 .. 28) \cup {32, 36, 40, 44, 45, 49}
        idx == (1 .. 4) \cup (21 .. 28) \cup {45}
    IN
    IF ~Readable(d, ends)
    THEN Raised(ReadError(d, ends, idx))
    ELSE [kind |-> "CarSetup",
          front_wing |-> B(d, 0),
          rear_wing |-> B(d, 1),
          on_throttle |-> B(d, 2),
          off_throttle |-> B(d, 3),
          front_camber |-> F32(d, 4),
          rear_camber |-> F32(d, 8),
          front_toe |-> F32(d, 12),
          rear_toe |-> F32(d, 16),
          front_suspension |-> B(d, 20),
          rear_suspension |-> B(d, 21),
          front_anti_roll_bar |-> B(d, 22),
          rear_anti_roll_bar |-> B(d, 23),
          front_suspension_height |-> B(d, 24),
          rear_suspension_height |-> B(d, 25),
          brake_pressure |-> B(d, 26),
          brake_bias |-> B(d, 27),
          rear_left_tyre_pressure |-> F32(d, 28),
          rear_right_tyre_pressure |-> F32(d, 32),
          front_left_tyre_pressure |-> F32(d, 36),
          front_right_tyre_pressure |-> F32(d, 40),
          ballast |-> B(d, 44),
          fuel_load |-> F32(d, 45),
          engine_braking |-> IF Len(d) > 49 THEN B(d, 49) ELSE 0],
    DecoderErrors)

parse_car_setup(data, car_index) ==
    LET header_size == 29
        setup_size == 53
        offset == header_size + (car_index * setup_size)
    IN  IF Len(data) < offset + setup_size THEN None
        ELSE setup_record(PySlice(data, offset, offset + setup_size))

\* parse_final_classification, try and except
classification_record(d) ==
    Except(
    LET ends == (1 .. 6) \cup {10, 18, 19, 20, 21}
        idx == (1 .. 6) \cup {19, 20, 21}
    IN
    IF ~Readable(d, ends)
    THEN Raised(ReadError(d, ends, idx))
    ELSE LET num_tyre_stints == B(d, 20)
             tyre_actual == PySlice(d, 21, 29)
             tyre_visual == PySlice(d, 29, 37)
         IN  [kind |-> "FinalClassification",
              position |-> B(d, 0),
              num_laps |-> B(d, 1),
              grid_position |-> B(d, 2),
              points |-> B(d, 3),
              num_pit_stops |-> B(d, 4),
              result_status |-> B(d, 5),
              best_lap_time |-> F32(d, 6),
              total_race_time |-> F64(d, 10),
              penalties_time |-> B(d, 18),
              num_penalties |-> B(d, 19),
              num_tyre_stints |-> num_tyre_stints,
              tyre_stints_actual |-> PySlice(tyre_actual, 0, num_tyre_stints),
              tyre_stints_visual |-> PySlice(tyre_visual, 0, num_tyre_stints)],
    DecoderErrors)

\* The count byte after the header is not skipped
parse_final_classification_noprefix(data, car_index) ==
    LET header_size == 29
        classification_size == 37
        offset == header_size + (car_index * classification_size)
    IN  IF Len(data) < offset + classification_size THEN None
        ELSE classification_record(PySlice(data, offset, offset + classification_size))

parse_final_classification(data, car_index) ==
    LET header_size == 29
        classification_size == 37
        offset == header_size + 1 + (car_index * classification_size)
    IN  IF Len(data) < offset + classification_size THEN None
        ELSE classification_record(PySlice(data, offset, offset + classification_size))

\* parse_lobby_info, try and except
lobby_record(d) ==
    Except(
    LET ends == {1, 2, 3, 52}
        idx == {1, 2, 3, 52}
    IN
    IF ~Readable(d, ends)
    THEN Raised(ReadError(d, ends, idx))
    ELSE [kind |-> "LobbyInfo",
          ai_controlled |-> Bool(d, 0),
          team_id |-> B(d, 1),
          nationality |-> B(d, 2),
          name |-> DecodeReplace(UntilNul(PySlice(d, 3, 51))),
          ready_status |-> B(d, 51),
          tech_level |-> IF Len(d) >= 55 THEN U16(d, 53) ELSE 0],
    DecoderErrors)

parse_lobby_info(data, car_index) ==
    LET header_size == 29
        lobby_size == 55
        offset == header_size + 1 + (car_index * lobby_size)
    IN  IF Len(data) < offset + lobby_size THEN None
        ELSE lobby_record(PySlice(data, offset, offset + lobby_size))

\* "FTLP" and the other string literals of EventData, as their UTF-8 bytes
FASTEST_LAP == DecodeReplace(<<70, 84, 76, 80>>)

RETIREMENT == DecodeReplace(<<82, 84, 77, 84>>)

TEAM_MATE_IN_PITS == DecodeReplace(<<84, 77, 80, 84>>)

RACE_WINNER == DecodeReplace(<<82, 67, 87, 78>>)

PENALTY_ISSUED == DecodeReplace(<<80, 78, 65, 76>>)

SPEED_TRAP == DecodeReplace(<<83, 80, 84, 80>>)

OVERTAKE == DecodeReplace(<<79, 86, 84, 75>>)

\* The float literal 0.0
Float0 == [f32bits |-> <<0, 0>>]

\* EventData(event_code=event_code): the other fields take their defaults
EventData(event_code) ==
    [kind |-> "EventData", event_code |-> event_code, vehicle_index |-> 0,
     lap_time |-> Float0, speed |-> Float0, penalty_type |-> 0,
     infringement_type |-> 0, other_vehicle_index |-> 0, time |-> 0,
     lap_num |-> 0, places_gained |-> 0]

\* The first detail byte is taken as the vehicle index for every code
event_payload_vehicle_always(event, event_code, details) ==
    IF Len(details) >= 1 THEN [event EXCEPT !.vehicle_index = B(details, 0)] ELSE event

\* parse_event, the if / elif chain over the event code
event_payload(event, event_code, details) ==
    IF event_code = FASTEST_LAP /\ Len(details) >= 5
    THEN [event EXCEPT !.vehicle_index = B(details, 0),
                       !.lap_time = F32(PySlice(details, 1, 5), 0)]
    ELSE IF event_code \in {RETIREMENT, TEAM_MATE_IN_PITS, RACE_WINNER}
            /\ Len(details) >= 1
    THEN [event EXCEPT !.vehicle_index = B(details, 0)]
    ELSE IF event_code = PENALTY_ISSUED /\ Len(details) >= 7
    THEN [event EXCEPT !.penalty_type = B(details, 0),
                       !.infringement_type = B(details, 1),
                       !.vehicle_index = B(details, 2),
                       !.other_vehicle_index = B(details, 3),
                       !.time = B(details, 4),
                       !.lap_num = B(details, 5),
                       !.places_gained = B(details, 6)]
    ELSE IF event_code = SPEED_TRAP /\ Len(details) >= 5
    THEN [event EXCEPT !.vehicle_index = B(details, 0),
                       !.speed = F32(PySlice(details, 1, 5), 0)]
    ELSE IF event_code = OVERTAKE /\ Len(details) >= 2
    THEN [event EXCEPT !.vehicle_index = B(details, 0),
                       !.other_vehicle_index = B(details, 1)]
    ELSE event

parse_event(data) ==
    IF Len(data) < 29 + 4 THEN None
    ELSE LET d == PyTail(data, 29)
             event_code == DecodeReplace(PySlice(d, 0, 4))
             event == EventData(event_code)
             details == PyTail(d, 4)
         IN  event_payload(event, event_code, details)

\* flags & mask, for a mask of one bit
BitSet(flags, mask) == (flags \div mask) % 2 = 1

\* parse_session_history, one LapHistoryItem
lap_history_item(d, lo) ==
    LET flags == B(d, lo + 10)
    IN  [kind |-> "LapHistoryItem",
         lap_time_ms |-> U32(PySlice(d, lo, lo + 4), 0),
         sector1_time_ms |-> U16(PySlice(d, lo + 4, lo + 6), 0),
         sector2_time_ms |-> U16(PySlice(d, lo + 6, lo + 8), 0),
         sector3_time_ms |-> U16(PySlice(d, lo + 8, lo + 10), 0),
         lap_valid |-> BitSet(flags, 1),
         sector1_valid |-> BitSet(flags, 2),
         sector2_valid |-> BitSet(flags, 4),
         sector3_valid |-> BitSet(flags, 8)]

\* The lap loop runs once per transmitted lap
history_range_unclamped(num_laps) == num_laps

\* range(min(num_laps, 100))
history_range(num_laps) == Min(num_laps, 100)

\* parse_session_history, the lap loop: the iterations i of range(n) that
\* are reached and do not break, i.e. with lo + lap_size <= len(d) for
\* every iteration up to i
history_iterations(d, n) ==
    LET lap_offset == 7
        lap_size == 11
    IN  {i \in 0 .. n - 1 :
            \A j \in 0 .. i : lap_offset + (j * lap_size) + lap_size <= Len(d)}

\* parse_session_history, the lap loop: one LapHistoryItem is appended in
\* each of these iterations
history_loop(d, n) ==
    [k \in 1 .. Cardinality(history_iterations(d, n)) |->
        lap_history_item(d, 7 + ((k - 1) * 11))]

parse_session_history(data) ==
    IF Len(data) < 29 + 7 THEN None
    ELSE LET d == PyTail(data, 29)
             num_laps == B(d, 1)
         IN  [kind |-> "SessionHistory",
              car_index |-> B(d, 0),
              num_laps |-> num_laps,
              num_tyre_stints |-> B(d, 2),
              best_lap_time_lap_num |-> B(d, 3),
              best_sector1_lap_num |-> B(d, 4),
              best_sector2_lap_num |-> B(d, 5),
              best_sector3_lap_num |-> B(d, 6),
              lap_history |-> history_loop(d, history_range(num_laps))]

\* The flag the loop computes and does not use: unworn and at the fitted index
tyre_set_fitted_unworn(d, so, i, fitted_idx) == B(d, so + 2) = 0 /\ i = fitted_idx

\* fitted=(i == fitted_idx)
tyre_set_fitted(d, so, i, fitted_idx) == i = fitted_idx

\* parse_tyre_sets, one TyreSetInfo
tyre_set_info(d, so, i, fitted_idx) ==
    [kind |-> "TyreSetInfo",
     actual_compound |-> B(d, so),
     visual_compound |-> B(d, so + 1),
     wear |-> B(d, so + 2),
     available |-> Bool(d, so + 3),
     recommended_session |-> B(d, so + 4),
     life_span |-> B(d, so + 5),
     usable_life |-> B(d, so + 6),
     lap_delta_time |-> I16(PySlice(d, so + 7, so + 9), 0),
     fitted |-> tyre_set_fitted(d, so, i, fitted_idx)]

\* parse_tyre_sets, the loop over range(20) from iteration i on
RECURSIVE tyre_loop(_, _, _)
tyre_loop(d, i, fitted_idx) ==
    LET set_offset == 3
        set_size == 9
        so == set_offset + (i * set_size)
    IN  IF i >= 20 THEN <<>>
        ELSE IF so + set_size > Len(d) THEN <<>>
        ELSE <<tyre_set_info(d, so, i, fitted_idx)>> \o tyre_loop(d, i + 1, fitted_idx)

parse_tyre_sets(data) ==
    IF Len(data) < 29 + 3 THEN None
    ELSE LET d == PyTail(data, 29)
             fitted_idx == IF Len(d) > 2 THEN B(d, 2) ELSE 255
         IN  [kind |-> "TyreSetData",
              car_index |-> B(d, 0),
              tyre_sets |-> tyre_loop(d, 0, fitted_idx),
              fitted_index |-> fitted_idx]

_parse_time_trial_dataset(d) ==
    IF Len(d) < 24 THEN None
    ELSE [kind |-> "TimeTrialDataSet",
          car_index |-> B(d, 0),
          team_id |-> B(d, 1),
          lap_time_ms |-> U32(PySlice(d, 2, 6), 0),
          sector1_time_ms |-> U32(PySlice(d, 6, 10), 0),
          sector2_time_ms |-> U32(PySlice(d, 10, 14), 0),
          sector3_time_ms |-> U32(PySlice(d, 14, 18), 0),
          traction_control |-> B(d, 18),
          gearbox_assist |-> B(d, 19),
          anti_lock_brakes |-> Bool(d, 20),
          equal_car_performance |-> Bool(d, 21),
          custom_setup |-> Bool(d, 22),
          valid |-> Bool(d, 23)]

\* The three data sets follow one another a byte early
time_trial_slice_overlapping(d, k) == PySlice(d, 23 * k, 23 * k + 24)

\* d[0:24], d[24:48], d[48:72]
time_trial_slice(d, k) == PySlice(d, 24 * k, 24 * k + 24)

\* all([...]): an instance of a dataclass is true, None is false
All(values) == \A v \in values : v # None

parse_time_trial(data) ==
    IF Len(data) < 29 + 72 THEN None
    ELSE LET d == PyTail(data, 29)
             player_best == _parse_time_trial_dataset(time_trial_slice(d, 0))
             personal_best == _parse_time_trial_dataset(time_trial_slice(d, 1))
             rival == _parse_time_trial_dataset(time_trial_slice(d, 2))
         IN  IF ~All({player_best, personal_best, rival}) THEN None
             ELSE [kind |-> "TimeTrial",
                   player_session_best |-> player_best,
                   personal_best |-> personal_best,
                   rival |-> rival]

\* The car-indexed decoders, by name
CarIndexedDecoders ==
    {"parse_lap_data", "parse_car_telemetry", "parse_car_status", "parse_car_damage",
     "parse_car_motion", "parse_car_setup", "parse_participants",
     "parse_final_classification", "parse_lobby_info"}

CallCarIndexed(fn, data, car_index) ==
    CASE fn = "parse_lap_data" -> parse_lap_data(data, car_index)
      [] fn = "parse_car_telemetry" -> parse_car_telemetry(data, car_index)
      [] fn = "parse_car_status" -> parse_car_status(data, car_index)
      [] fn = "parse_car_damage" -> parse_car_damage(data, car_index)
      [] fn = "parse_car_motion" -> parse_car_motion(data, car_index)
      [] fn = "parse_car_setup" -> parse_car_setup(data, car_index)
      [] fn = "parse_participants" -> parse_participants(data, car_index)
      [] fn = "parse_final_classification" -> parse_final_classification(data, car_index)
      [] fn = "parse_lobby_info" -> parse_lobby_info(data, car_index)

(***************************************************************************)
(* Decoder harness: one call of one decoder on one buffer                  *)
(***************************************************************************)

\* Length of the packet header
HeaderSize == 29

\* Largest datagram the receive loops take: recvfrom(4096)
RecvSize == 4096

\* Cars per packet: the car indices of the protocol are 0 .. NumCars - 1
NumCars == 22

\* Buffer lengths are tried up to this far on either side of each length check
Slack == 1

\* Car indices are tried up to this far outside 0 .. NumCars - 1
IdxSlack == 3

\* Per-record byte width of each car-indexed decoder (lap_size, telemetry_size, ...)
RecordWidth(fn) ==
    CASE fn = "parse_lap_data" -> 57
      [] fn = "parse_car_telemetry" -> 60
      [] fn = "parse_car_status" -> 55
      [] fn = "parse_car_damage" -> 42
      [] fn = "parse_car_motion" -> 60
      [] fn = "parse_car_setup" -> 53
      [] fn = "parse_participants" -> 58
      [] fn = "parse_final_classification" -> 37
      [] fn = "parse_lobby_info" -> 55

\* 1 for the packets whose car array follows a count byte
CountPrefix(fn) ==
    IF fn \in {"parse_participants", "parse_final_classification", "parse_lobby_info"}
    THEN 1 ELSE 0

\* The length the decoder's length check compares with
Required(fn, car_index) ==
    HeaderSize + CountPrefix(fn) + (car_index + 1) * RecordWidth(fn)

\* A buffer of `len` bytes: v, v + step, v + 2 * step, ... (mod 256)
Bytes(len, v, step) == [k \in 1 .. len |-> (v + (k - 1) * step) % 256]

Around(n) == {m \in (n - Slack) .. (n + Slack) : 0 <= m /\ m <= RecvSize}

CarIndices == (0 - IdxSlack) .. (NumCars - 1 + IdxSlack)

\* Car-indexed decoders at the edges of their length check, for every index
EdgeLengths(fn, i) ==
    {0, HeaderSize, RecvSize}
    \cup UNION {Around(Required(fn, j)) : j \in {i, i + 1} \cap (0 .. 255)}

EdgeInputs(vs) ==
    UNION { { [fn |-> fn, car_index |-> i, data |-> Bytes(len, v, v)] :
                len \in EdgeLengths(fn, i), v \in vs } :
            fn \in CarIndexedDecoders, i \in CarIndices \cup {255} }

\* parse_header at every length around the header size, and every type code
HeaderInputs(steps) ==
    { [fn |-> "parse_header", car_index |-> 0, data |-> Bytes(len, v, 1)] :
        len \in (0 .. HeaderSize + Slack) \cup {RecvSize}, v \in {0, 250} }
    \cup
    { [fn |-> "parse_header", car_index |-> 0, data |-> Bytes(len, v, step)] :
        len \in Around(HeaderSize + 1), v \in 0 .. 255, step \in steps }

\* The decoders with enumerated fields, with every byte value in every field
ValueInputs(steps) ==
    UNION { { [fn |-> fn, car_index |-> i, data |-> Bytes(Required(fn, i), v, step)] :
                v \in 0 .. 255, step \in steps } :
            fn \in {"parse_lap_data", "parse_car_status", "parse_participants"},
            i \in {0, NumCars - 1} }
    \cup
    { [fn |-> "parse_session", car_index |-> 0, data |-> Bytes(len, v, step)] :
        len \in Around(HeaderSize + 50) \cup Around(HeaderSize + 20 + 21 * 2) \cup {RecvSize},
        v \in 0 .. 255, step \in steps }

Pending == [kind |-> "pending"]

CallParseHeader ==
    /\ pin.fn = "parse_header" /\ pout = Pending
    /\ pout' = parse_header(pin.data)
    /\ UNCHANGED <<pin, dispatcherVars, otherVars>>

CallParseSession ==
    /\ pin.fn = "parse_session" /\ pout = Pending
    /\ pout' = parse_session(pin.data)
    /\ UNCHANGED <<pin, dispatcherVars, otherVars>>

CallParseCarIndexed ==
    /\ pin.fn \in CarIndexedDecoders /\ pout = Pending
    /\ pout' = CallCarIndexed(pin.fn, pin.data, pin.car_index)
    /\ UNCHANGED <<pin, dispatcherVars, otherVars>>

\* A receive thread that is not inside _process_packet
IdleThread(pc) ==
    [pc |-> pc, data |-> <<>>, header |-> None, parsed |-> None, key |-> 0 - 1,
     i |-> 0, hs0 |-> <<>>, log |-> <<>>, heap |-> None, earlier |-> {}]

\* F1Dispatcher.__init__
DispatcherInit ==
    /\ handlers = <<>>
    /\ sock = 0
    /\ running = FALSE
    /\ thread = 0
    /\ th = <<>>
    /\ sockets = <<>>
    /\ timeouts = 0
    /\ op = [name |-> "init", done |-> TRUE, was_running |-> FALSE, raised |-> FALSE]

\* F1GameData(): every field defaults to None
F1GameData ==
    [header |-> None, session |-> None, lap |-> None, telemetry |-> None,
     status |-> None, damage |-> None, motion |-> None]

\* The client's receive thread between two datagrams
ClientIdle == [pc |-> "recv", i |-> 0, packet |-> <<>>, log |-> <<>>]

\* F1TelemetryClient.__init__
ClientInit ==
    /\ client_data = F1GameData
    /\ callbacks = <<>>
    /\ cthread = ClientIdle
    /\ received = <<>>

\* Buttons.RADIO, Buttons.IGNITION, Buttons.LAUNCH_CONTROL
RADIO == 3

IGNITION == 10

LAUNCH_CONTROL == 11

\* _ignition_held_since = None
NoTime == 0 - 1

\* RaceControlPanel.__init__, Button.__init__
PanelInit ==
    /\ buttons = [b \in {RADIO, IGNITION, LAUNCH_CONTROL} |->
                    [state |-> FALSE, prev_state |-> FALSE]]
    /\ race_mode = FALSE
    /\ launch_control_on = FALSE
    /\ ignition_held_since = NoTime
    /\ now = 0
    /\ effects = {}
    /\ pressed_since = NoTime

DecoderInit ==
    /\ DispatcherInit /\ ClientInit /\ PanelInit
    /\ pin \in EdgeInputs({0, 1}) \cup HeaderInputs({0, 1}) \cup ValueInputs({0, 1})
    /\ pout = Pending

DecoderNext == CallParseHeader \/ CallParseSession \/ CallParseCarIndexed

DecoderSpec == DecoderInit /\ [][DecoderNext]_vars

\* The 4-byte codes tried in event datagrams: the codes with a payload
\* ("FTLP", "RTMT", "TMPT", "RCWN", "PNAL", "SPTP", "OVTK"), codes without one
\* ("SSTA", "BUTN"), a code one letter case away from "FTLP", and bytes that
\* are not text
EventCodes ==
    {<<70, 84, 76, 80>>, <<82, 84, 77, 84>>, <<84, 77, 80, 84>>, <<82, 67, 87, 78>>,
     <<80, 78, 65, 76>>, <<83, 80, 84, 80>>, <<79, 86, 84, 75>>,
     <<83, 83, 84, 65>>, <<66, 85, 84, 78>>, <<70, 84, 76, 112>>,
     <<0, 0, 0, 0>>, <<255, 254, 253, 252>>}

\* Most detail bytes tried after an event code
MaxDetails == 8

\* Lap entries of the session histories tried, beside none and the clamp
FewLaps == 3

\* The decoders of packets that are not per-car arrays, at the edges of their
\* length checks and with every byte value in their count and index fields
BodyInputs(steps) ==
    { [fn |-> "parse_event", car_index |-> 0,
       data |-> Bytes(HeaderSize, v, 1) \o code \o Bytes(n, v, 1)] :
        code \in EventCodes, n \in 0 .. MaxDetails, v \in {0, 1, 200} }
    \cup
    { [fn |-> "parse_event", car_index |-> 0, data |-> Bytes(len, v, step)] :
        len \in Around(HeaderSize + 4) \cup {0, RecvSize}, v \in {0, 70}, step \in steps }
    \cup
    { [fn |-> "parse_session_history", car_index |-> 0, data |-> Bytes(len, v, step)] :
        len \in Around(HeaderSize + 7) \cup Around(HeaderSize + 7 + 11 * FewLaps)
                \cup Around(HeaderSize + 7 + 11 * 100) \cup {RecvSize},
        v \in 0 .. 255, step \in steps }
    \cup
    { [fn |-> "parse_tyre_sets", car_index |-> 0, data |-> Bytes(len, v, step)] :
        len \in Around(HeaderSize + 3) \cup Around(HeaderSize + 3 + 9 * 20) \cup {RecvSize},
        v \in 0 .. 255, step \in steps }
    \cup
    { [fn |-> "parse_time_trial", car_index |-> 0, data |-> Bytes(len, v, step)] :
        len \in Around(HeaderSize + 72) \cup Around(HeaderSize + 48) \cup {0, RecvSize},
        v \in {0, 1, 128, 255}, step \in steps }

CallParseEvent ==
    /\ pin.fn = "parse_event" /\ pout = Pending
    /\ pout' = parse_event(pin.data)
    /\ UNCHANGED <<pin, dispatcherVars, otherVars>>

CallParseSessionHistory ==
    /\ pin.fn = "parse_session_history" /\ pout = Pending
    /\ pout' = parse_session_history(pin.data)
    /\ UNCHANGED <<pin, dispatcherVars, otherVars>>

CallParseTyreSets ==
    /\ pin.fn = "parse_tyre_sets" /\ pout = Pending
    /\ pout' = parse_tyre_sets(pin.data)
    /\ UNCHANGED <<pin, dispatcherVars, otherVars>>

CallParseTimeTrial ==
    /\ pin.fn = "parse_time_trial" /\ pout = Pending
    /\ pout' = parse_time_trial(pin.data)
    /\ UNCHANGED <<pin, dispatcherVars, otherVars>>

BodyInit ==
    /\ DispatcherInit /\ ClientInit /\ PanelInit
    /\ pin \in BodyInputs({0, 1})
    /\ pout = Pending

BodyNext ==
    CallParseEvent \/ CallParseSessionHistory \/ CallParseTyreSets \/ CallParseTimeTrial

BodySpec == BodyInit /\ [][BodyNext]_vars

(***************************************************************************)
(* f1_to_serial.py: the serial bridge's own telemetry decoder              *)
(***************************************************************************)

\* The remaining bytes are divided by 23
serial_offset_by_23(data, player_index) ==
    LET header_size == 29
        total_data == Len(data) - header_size
        per_car_size == total_data \div 23
    IN  header_size + (player_index * per_car_size)

\* parse_car_telemetry of f1_to_serial.py: per_car_size = total_data // 22,
\* offset = header_size + (player_index * per_car_size)
serial_offset(data, player_index) ==
    LET header_size == 29
        total_data == Len(data) - header_size
        per_car_size == total_data \div 22
    IN  header_size + (player_index * per_car_size)

\* parse_car_telemetry of f1_to_serial.py, try and except: struct.unpack
\* raises struct.error unless the slice has the size of the format
serial_telemetry_record(car_data) ==
    LET sized == /\ Len(PySlice(car_data, 0, 22)) = 22
                 /\ Len(PySlice(car_data, 22, 30)) = 8
                 /\ Len(PySlice(car_data, 30, 34)) = 4
                 /\ Len(PySlice(car_data, 34, 38)) = 4
                 /\ Len(PySlice(car_data, 38, 40)) = 2
                 /\ Len(PySlice(car_data, 40, 56)) = 16
                 /\ Len(PySlice(car_data, 56, 60)) = 4
        d == car_data
    IN  IF ~sized THEN None
        ELSE [kind |-> "CarTelemetry",
              speed |-> U16(d, 0),
              throttle |-> F32(d, 2),
              steer |-> F32(d, 6),
              brake |-> F32(d, 10),
              clutch |-> B(d, 14),
              gear |-> I8(d, 15),
              engine_rpm |-> U16(d, 16),
              drs |-> B(d, 18),
              rev_lights_percent |-> B(d, 19),
              rev_lights_bit |-> U16(d, 20),
              brake_temps |-> <<U16(d, 22), U16(d, 24), U16(d, 26), U16(d, 28)>>,
              tyre_surface_temps |-> <<B(d, 30), B(d, 31), B(d, 32), B(d, 33)>>,
              tyre_inner_temps |-> <<B(d, 34), B(d, 35), B(d, 36), B(d, 37)>>,
              engine_temp |-> U16(d, 38),
              tyre_pressures |-> <<F32(d, 40), F32(d, 44), F32(d, 48), F32(d, 52)>>,
              surface_types |-> <<B(d, 56), B(d, 57), B(d, 58), B(d, 59)>>]

serial_parse_car_telemetry(data, player_index) ==
    LET offset == serial_offset(data, player_index)
    IN  IF Len(data) < offset + 60 THEN None
        ELSE serial_telemetry_record(PySlice(data, offset, offset + 80))

\* The bridge's decoder for every player index, on buffers without a header,
\* at the edge of its length check, with 22 records of 59, 60 and 61 bytes
\* and some bytes more, and of the largest size received
SerialInputs ==
    { [fn |-> "serial_parse_car_telemetry", car_index |-> i, data |-> Bytes(len, v, step)] :
        len \in {0, HeaderSize, RecvSize} \cup Around(HeaderSize + 60)
                \cup UNION {Around(HeaderSize + 22 * w) : w \in {59, 60, 61}},
        i \in 0 .. NumCars - 1, v \in {0, 7}, step \in {1, 3} }

CallSerialParseCarTelemetry ==
    /\ pin.fn = "serial_parse_car_telemetry" /\ pout = Pending
    /\ pout' = serial_parse_car_telemetry(pin.data, pin.car_index)
    /\ UNCHANGED <<pin, dispatcherVars, otherVars>>

SerialInit ==
    /\ DispatcherInit /\ ClientInit /\ PanelInit
    /\ pin \in SerialInputs
    /\ pout = Pending

SerialSpec == SerialInit /\ [][CallSerialParseCarTelemetry]_vars

(***************************************************************************)
(* F1Dispatcher (f1_dispatcher/dispatcher.py)                              *)
(*                                                                         *)
(* One owner thread calls on(), start() and stop(), one call at a time;    *)
(* every receive thread started by start() runs _listen.  A handler is a   *)
(* callable of the caller's that either returns or raises an Exception.    *)
(***************************************************************************)

\* Handlers registered in all, over every packet type
MaxRegistrations == 2

\* Sockets created in all (calls of start() that found the dispatcher stopped)
MaxStarts == 2

\* Joins of stop() that time out in all, leaving the old receive thread alive
MaxJoinTimeouts == 1

\* Registrations, sockets created and join timeouts in all
MaxCalls == 3

HandlerIds == {"h1", "h2", "h3"}

\* The handlers that raise an Exception when called; the others return
RaisingHandlers == {"h2"}

\* The handlers that assign to fields of the header and body they are given
MutatingHandlers == {"h3"}

\* The handlers that then call stop() on the dispatcher
StoppingHandlers == {"h3"}

\* Keys on() is called with: CAR_TELEMETRY and a raw int that is no PacketType
RegistrationKeys == {6, 201}

\* The calls on(packet_type, handler) that are made
Registrable == ({6} \X HandlerIds) \cup ({201} \X {"h1"})

\* A datagram: the header carries the type code and the player car index
Datagram(type, player, len) ==
    [k \in 1 .. len |-> IF k = 7 THEN type ELSE IF k = 28 THEN player ELSE k % 256]

Datagrams ==
    { Datagram(6, 0, HeaderSize + 60),     \* CAR_TELEMETRY, the player's record present
      Datagram(6, 1, HeaderSize + 60),     \* CAR_TELEMETRY, the player's record cut off
      Datagram(201, 0, HeaderSize + 60),   \* a type code that is no PacketType
      Datagram(6, 0, HeaderSize - 1) }     \* no header

\* _PARSERS: the keys are the 15 PacketType members
InParsers(packet_type) == packet_type.value \in PacketTypeValues

\* _PARSERS[packet_type][1], needs_car_index
NeedsCarIndex(code) == code \in {0, 2, 4, 5, 6, 7, 8, 9, 10}

\* parse_fn(data, header.player_car_index) or parse_fn(data), for the
\* packet kinds whose decoder is modelled
ParseBody(code, data, player_car_index) ==
    CASE code = 0 -> parse_car_motion(data, player_car_index)
      [] code = 1 -> parse_session(data)
      [] code = 2 -> parse_lap_data(data, player_car_index)
      [] code = 4 -> parse_participants(data, player_car_index)
      [] code = 5 -> parse_car_setup(data, player_car_index)
      [] code = 6 -> parse_car_telemetry(data, player_car_index)
      [] code = 7 -> parse_car_status(data, player_car_index)
      [] code = 8 -> parse_final_classification(data, player_car_index)
      [] code = 9 -> parse_lobby_info(data, player_car_index)
      [] code = 10 -> parse_car_damage(data, player_car_index)

\* self._handlers.get(packet_type); None and [] are both falsy
HandlersGet(code) == IF code \in DOMAIN handlers THEN handlers[code] ELSE <<>>

RECURSIVE SumLen(_, _)
SumLen(f, keys) ==
    IF keys = {} THEN 0
    ELSE LET k == CHOOSE x \in keys : TRUE
         IN  Len(f[k]) + SumLen(f, keys \ {k})

Registrations == SumLen(handlers, DOMAIN handlers)

\* What has been spent of MaxCalls
Calls == Registrations + Len(sockets) + timeouts

OwnerIdle == op.done

Call(name, done, raised) ==
    [name |-> name, done |-> done, was_running |-> running, raised |-> raised]

\* The handler takes the place of the list of its packet type
On_replacing(k, h) ==
    /\ OwnerIdle
    /\ Registrations < MaxRegistrations /\ Calls < MaxCalls
    /\ handlers' = [x \in DOMAIN handlers \cup {k} |->
                       IF x = k THEN <<h>> ELSE handlers[x]]
    /\ UNCHANGED <<sock, running, thread, th, sockets, op, timeouts, pin, pout, otherVars>>

\* on(packet_type, handler), and the decorator on(packet_type)(fn):
\* self._handlers[packet_type].append(handler)
On(k, h) ==
    /\ OwnerIdle
    /\ Registrations < MaxRegistrations /\ Calls < MaxCalls
    /\ handlers' = IF k \in DOMAIN handlers
                   THEN [handlers EXCEPT ![k] = Append(@, h)]
                   ELSE handlers @@ (k :> <<h>>)
    /\ UNCHANGED <<sock, running, thread, th, sockets, op, timeouts, pin, pout, otherVars>>

\* self._running = True is set before the bind
StartFresh_running_first ==
    /\ Len(sockets) < MaxStarts /\ Calls < MaxCalls
    /\ \E bind_ok \in BOOLEAN :
         /\ sock' = Len(sockets) + 1
         /\ sockets' = Append(sockets, IF bind_ok THEN "bound" ELSE "unbound")
         /\ running' = TRUE
         /\ IF bind_ok
            THEN /\ thread' = Len(th) + 1
                 /\ th' = Append(th, IdleThread("loop"))
            ELSE UNCHANGED <<thread, th>>
         /\ op' = Call("start", TRUE, ~bind_ok)
    /\ UNCHANGED <<handlers, timeouts, pin, pout, otherVars>>

\* start(), from the socket() call on: the bind either succeeds, or raises
\* and leaves self._socket set and the dispatcher stopped
StartFresh ==
    /\ Len(sockets) < MaxStarts /\ Calls < MaxCalls
    /\ \E bind_ok \in BOOLEAN :
         /\ sock' = Len(sockets) + 1
         /\ sockets' = Append(sockets, IF bind_ok THEN "bound" ELSE "unbound")
         /\ IF bind_ok
            THEN /\ running' = TRUE
                 /\ thread' = Len(th) + 1
                 /\ th' = Append(th, IdleThread("loop"))
            ELSE UNCHANGED <<running, thread, th>>
         /\ op' = Call("start", TRUE, ~bind_ok)
    /\ UNCHANGED <<handlers, timeouts, pin, pout, otherVars>>

\* The running check is missing
Start_unguarded == OwnerIdle /\ StartFresh

\* start()
Start ==
    /\ OwnerIdle
    /\ IF running
       THEN /\ op' = Call("start", TRUE, FALSE)
            /\ UNCHANGED <<handlers, sock, running, thread, th, sockets, timeouts,
                           pin, pout, otherVars>>
       ELSE StartFresh

\* stop(), up to the join: self._running = False
StopBegin ==
    /\ OwnerIdle
    /\ running' = FALSE
    /\ op' = Call("stop", FALSE, FALSE)
    /\ UNCHANGED <<handlers, sock, thread, th, sockets, timeouts, pin, pout, otherVars>>

\* if self._thread: self._thread.join(timeout=2.0) returns: there is no
\* thread, or the thread has ended, or the 2 s ran out
Joined ==
    IF thread = 0 \/ th[thread].pc = "exited"
    THEN UNCHANGED timeouts
    ELSE /\ timeouts < MaxJoinTimeouts /\ Calls < MaxCalls
         /\ timeouts' = timeouts + 1

\* self._socket = None is missing
StopEnd_socket_kept ==
    /\ op.name = "stop" /\ ~op.done
    /\ sockets' = IF sock # 0 THEN [sockets EXCEPT ![sock] = "closed"] ELSE sockets
    /\ op' = [op EXCEPT !.done = TRUE]
    /\ Joined
    /\ UNCHANGED <<handlers, sock, running, thread, th, pin, pout, otherVars>>

\* stop(), from the join on; then the socket is closed and forgotten
StopEnd ==
    /\ op.name = "stop" /\ ~op.done
    /\ IF sock # 0
       THEN /\ sockets' = [sockets EXCEPT ![sock] = "closed"]
            /\ sock' = 0
       ELSE UNCHANGED <<sock, sockets>>
    /\ op' = [op EXCEPT !.done = TRUE]
    /\ Joined
    /\ UNCHANGED <<handlers, running, thread, th, pin, pout, otherVars>>

Threads == 1 .. Len(th)

\* The threads that hold a datagram: between recvfrom's return and the
\* return of _process_packet's handler loop
Dispatching == {u \in Threads : th[u].pc \in {"dispatch", "handler", "hstop"}}

\* The loop condition is not read
Loop_forever(t) ==
    /\ th[t].pc = "loop"
    /\ th' = [th EXCEPT ![t] = IdleThread("recv")]
    /\ UNCHANGED <<handlers, sock, running, thread, sockets, op, timeouts, pin, pout, otherVars>>

\* _listen: while self._running
Loop(t) ==
    /\ th[t].pc = "loop"
    /\ th' = [th EXCEPT ![t] = IdleThread(IF running THEN "recv" ELSE "exited")]
    /\ UNCHANGED <<handlers, sock, running, thread, sockets, op, timeouts, pin, pout, otherVars>>

\* _process_packet(data) up to the handler loop: the thread's locals after
\* it; earlier are the threads that hold a datagram received before this one
ProcessPacket(data, earlier) ==
    LET header == parse_header(data)
        code == header.packet_type.value
        hs == HandlersGet(code)
        parsed == ParseBody(code, data, header.player_car_index)
        dropped == [IdleThread("loop") EXCEPT !.data = data]
    IN  IF header = None THEN dropped
        ELSE IF ~InParsers(header.packet_type) THEN [dropped EXCEPT !.header = header]
        ELSE IF hs = <<>> THEN [dropped EXCEPT !.header = header]
        ELSE IF parsed = None \/ parsed.kind = "raise"
             THEN [dropped EXCEPT !.header = header, !.parsed = parsed, !.hs0 = hs]
        ELSE [pc |-> "dispatch", data |-> data, header |-> header, parsed |-> parsed,
              key |-> code, i |-> 0, hs0 |-> hs, log |-> <<>>,
              heap |-> [header |-> header, body |-> parsed], earlier |-> earlier]

\* recvfrom(4096) returns a datagram
RecvDatagram(t, data) ==
    /\ th[t].pc = "recv"
    /\ sock # 0 /\ sockets[sock] = "bound"
    /\ th' = [th EXCEPT ![t] = ProcessPacket(data, Dispatching)]
    /\ UNCHANGED <<handlers, sock, running, thread, sockets, op, timeouts, pin, pout, otherVars>>

\* The loop is left when the receive call raises
RecvRaises_exit(t) ==
    /\ th[t].pc = "recv"
    /\ th' = [th EXCEPT ![t] = IdleThread("exited")]
    /\ UNCHANGED <<handlers, sock, running, thread, sockets, op, timeouts, pin, pout, otherVars>>

\* recvfrom raises: socket.timeout, or another Exception (self._socket is
\* None or closed, or the receive failed); both continue the loop
RecvRaises(t) ==
    /\ th[t].pc = "recv"
    /\ th' = [th EXCEPT ![t] = IdleThread("loop")]
    /\ UNCHANGED <<handlers, sock, running, thread, sockets, op, timeouts, pin, pout, otherVars>>

\* The call handler(header, parsed) as the handler's log entry: the objects
\* passed, and the values they hold when the handler gets them
HandlerCall(t, h) ==
    [handler |-> h, header |-> th[t].header, body |-> th[t].parsed,
     seen |-> th[t].heap, outcome |-> "running", stop |-> None]

\* The list is walked from its end
HandlerBegin_reversed(t) ==
    /\ th[t].pc = "dispatch"
    /\ th[t].i < Len(handlers[th[t].key])
    /\ th' = [th EXCEPT ![t].pc = "handler",
                        ![t].log = Append(@, HandlerCall(t,
                                       handlers[th[t].key][Len(handlers[th[t].key]) - th[t].i]))]
    /\ UNCHANGED <<handlers, sock, running, thread, sockets, op, timeouts, pin, pout, otherVars>>

\* for handler in handlers: the next handler of the live list is called
HandlerBegin(t) ==
    /\ th[t].pc = "dispatch"
    /\ th[t].i < Len(handlers[th[t].key])
    /\ th' = [th EXCEPT ![t].pc = "handler",
                        ![t].log = Append(@, HandlerCall(t, handlers[th[t].key][th[t].i + 1]))]
    /\ UNCHANGED <<handlers, sock, running, thread, sockets, op, timeouts, pin, pout, otherVars>>

\* The handler thread t is in
Current(t) == th[t].log[Len(th[t].log)].handler

\* A handler that calls stop() on the dispatcher: self._running = False
HandlerStop(t) ==
    /\ th[t].pc = "handler"
    /\ Current(t) \in StoppingHandlers
    /\ running' = FALSE
    /\ th' = [th EXCEPT ![t].pc = "hstop",
                        ![t].log[Len(th[t].log)].stop = [was_running |-> running]]
    /\ UNCHANGED <<handlers, sock, thread, sockets, op, timeouts, pin, pout, otherVars>>

\* What the handler being called does: raises, or returns; a handler that
\* calls stop() from the receive thread gets join()'s RuntimeError
Outcome(t) ==
    IF Current(t) \in RaisingHandlers \/ (th[t].pc = "hstop" /\ thread = t)
    THEN "raise" ELSE "return"

\* The record objects after the handler: a handler may assign to the fields
\* of the (unfrozen) dataclass instances it is given
HeapAfter(t) ==
    IF Current(t) \in MutatingHandlers
    THEN [th[t].heap EXCEPT !.body.speed = 0, !.header.frame_identifier = <<0, 0>>]
    ELSE th[t].heap

\* The handler returns or raises, and the loop goes to where to sends it.
\* stop() called in the handler ends first: it raises at the join of the
\* current thread, leaving the socket, or joins the other thread and closes
HandlerEndTo(t, to) ==
    /\ \/ th[t].pc = "handler" /\ Current(t) \notin StoppingHandlers
       \/ th[t].pc = "hstop"
    /\ IF th[t].pc = "hstop" /\ thread # t
       THEN /\ Joined
            /\ IF sock # 0
               THEN /\ sockets' = [sockets EXCEPT ![sock] = "closed"]
                    /\ sock' = 0
               ELSE UNCHANGED <<sock, sockets>>
       ELSE UNCHANGED <<sock, sockets, timeouts>>
    /\ th' = [th EXCEPT ![t].pc = to,
                        ![t].i = @ + 1,
                        ![t].heap = HeapAfter(t),
                        ![t].log[Len(th[t].log)].outcome = Outcome(t),
                        ![t].log[Len(th[t].log)].stop =
                            IF th[t].pc = "hstop"
                            THEN [was_running |-> @.was_running,
                                  running |-> running,
                                  sock |-> IF thread # t THEN 0 ELSE sock]
                            ELSE @]
    /\ UNCHANGED <<handlers, running, thread, op, pin, pout, otherVars>>

\* An exception of the handler leaves the handler loop and _process_packet
HandlerEnd_abort(t) ==
    HandlerEndTo(t, IF Outcome(t) = "raise" THEN "loop" ELSE "dispatch")

\* handler(header, parsed) returns, or raises into `except Exception: pass`
HandlerEnd(t) == HandlerEndTo(t, "dispatch")

\* The handler list is exhausted: _process_packet returns to _listen, and
\* the datagram is no longer held
DispatchDone(t) ==
    /\ th[t].pc = "dispatch"
    /\ th[t].i >= Len(handlers[th[t].key])
    /\ th' = [u \in Threads |->
                IF u = t THEN IdleThread("loop")
                ELSE [th[u] EXCEPT !.earlier = @ \ {t}]]
    /\ UNCHANGED <<handlers, sock, running, thread, sockets, op, timeouts, pin, pout, otherVars>>

Init ==
    /\ DispatcherInit /\ ClientInit /\ PanelInit
    /\ pin = [fn |-> "none", car_index |-> 0, data |-> <<>>]
    /\ pout = Pending

\* What one receive thread does next
ThreadStep(t) ==
    \/ Loop(t)
    \/ \E data \in Datagrams : RecvDatagram(t, data)
    \/ RecvRaises(t)
    \/ HandlerBegin(t)
    \/ HandlerStop(t)
    \/ HandlerEnd(t)
    \/ DispatchDone(t)

Next ==
    \/ \E r \in Registrable : On(r[1], r[2])
    \/ Start
    \/ StopBegin
    \/ StopEnd
    \/ \E t \in Threads : Loop(t)
    \/ \E t \in Threads, data \in Datagrams : RecvDatagram(t, data)
    \/ \E t \in Threads : RecvRaises(t)
    \/ \E t \in Threads : HandlerBegin(t)
    \/ \E t \in Threads : HandlerStop(t)
    \/ \E t \in Threads : HandlerEnd(t)
    \/ \E t \in Threads : DispatchDone(t)

Spec == Init /\ [][Next]_vars

\* The receive threads keep being scheduled, their receive calls return or
\* time out and their handlers return: while one of them can take a step,
\* one of them does
Fairness == WF_vars(\E t \in Threads : ThreadStep(t))

FairSpec == Spec /\ Fairness

(***************************************************************************)
(* F1TelemetryClient (f1_telemetry/client.py)                              *)
(*                                                                         *)
(* One receive thread takes the datagrams one after the other; each call   *)
(* of a callback is a step of its own, and on_update() may be called by    *)
(* another thread between any two steps.                                   *)
(***************************************************************************)

\* Callbacks registered in all
MaxCallbacks == 2

\* Datagrams received in all
MaxReceived == 2

CallbackIds == {"c1", "c2"}

\* The callbacks that raise
RaisingCallbacks == {"c1"}

\* A datagram as Datagram(type, player, len), with other body bytes for
\* another v
ClientDatagram(type, player, len, v) ==
    [k \in 1 .. len |->
        IF k = 7 THEN type ELSE IF k = 28 THEN player ELSE (k + v) % 256]

ClientDatagrams ==
    { ClientDatagram(1, 0, HeaderSize + 50, 0),     \* SESSION
      ClientDatagram(1, 0, HeaderSize + 50, 1),     \* SESSION, other values
      ClientDatagram(1, 0, HeaderSize + 49, 0),     \* SESSION, too short to decode
      ClientDatagram(2, 0, HeaderSize + 57, 0),     \* LAP_DATA
      ClientDatagram(6, 0, HeaderSize + 60, 0),     \* CAR_TELEMETRY
      ClientDatagram(6, 1, HeaderSize + 60, 0),     \* CAR_TELEMETRY, player's record cut off
      ClientDatagram(7, 0, HeaderSize + 55, 0),     \* CAR_STATUS
      ClientDatagram(10, 0, HeaderSize + 42, 0),    \* CAR_DAMAGE
      ClientDatagram(0, 0, HeaderSize + 60, 0),     \* MOTION
      ClientDatagram(3, 0, HeaderSize + 4, 0),      \* EVENT: a kind that is not retained
      ClientDatagram(201, 0, HeaderSize + 60, 0),   \* a type code that is no PacketType
      ClientDatagram(6, 0, HeaderSize - 1, 0) }     \* no header

\* on_update(callback): self._callbacks.append(callback)
OnUpdate(c) ==
    /\ Len(callbacks) < MaxCallbacks
    /\ callbacks' = Append(callbacks, c)
    /\ UNCHANGED <<client_data, cthread, received, dispatcherVars, pin, pout, panelVars>>

\* The field of F1GameData the if / elif chain assigns for a packet type
RetainedField(code) ==
    CASE code = 1 -> "session"
      [] code = 2 -> "lap"
      [] code = 6 -> "telemetry"
      [] code = 7 -> "status"
      [] code = 10 -> "damage"
      [] code = 0 -> "motion"
      [] OTHER -> "none"

\* _process_packet: self.data.header = header, then the if / elif chain:
\* self.data.<kind> = parse_<kind>(data[, car_index])
Retain(d, header, packet) ==
    LET code == header.packet_type.value
        with_header == [d EXCEPT !.header = header]
    IN  IF RetainedField(code) = "none" THEN with_header
        ELSE [with_header EXCEPT ![RetainedField(code)] =
                  ParseBody(code, packet, header.player_car_index)]

\* recvfrom(4096) returns a datagram and _process_packet runs up to its
\* callback loop
ClientRecv(packet) ==
    /\ cthread.pc = "recv"
    /\ Len(received) < MaxReceived
    /\ received' = Append(received, packet)
    /\ LET header == parse_header(packet)
       IN  IF header = None
           THEN /\ cthread' = [ClientIdle EXCEPT !.packet = packet]
                /\ UNCHANGED client_data
           ELSE /\ client_data' = Retain(client_data, header, packet)
                /\ cthread' = [pc |-> "notify", i |-> 0, packet |-> packet, log |-> <<>>]
    /\ UNCHANGED <<callbacks, dispatcherVars, pin, pout, panelVars>>

\* try: callback(self.data) / except Exception: pass
CallbackCall(c) ==
    [callback |-> c, seen |-> client_data,
     outcome |-> IF c \in RaisingCallbacks THEN "raise" ELSE "return"]

\* A callback that raises ends the loop
ClientNotify_stop_on_raise ==
    /\ cthread.pc = "notify"
    /\ cthread.i < Len(callbacks)
    /\ LET call == CallbackCall(callbacks[cthread.i + 1])
       IN  cthread' = [cthread EXCEPT !.i = IF call.outcome = "raise"
                                            THEN Len(callbacks) ELSE @ + 1,
                                      !.log = Append(@, call)]
    /\ UNCHANGED <<client_data, callbacks, received, dispatcherVars, pin, pout, panelVars>>

\* for callback in self._callbacks: the next callback is called
ClientNotify ==
    /\ cthread.pc = "notify"
    /\ cthread.i < Len(callbacks)
    /\ cthread' = [cthread EXCEPT !.i = @ + 1,
                                  !.log = Append(@, CallbackCall(callbacks[cthread.i + 1]))]
    /\ UNCHANGED <<client_data, callbacks, received, dispatcherVars, pin, pout, panelVars>>

\* The callback loop finds no further callback and _process_packet returns
ClientNotifyDone ==
    /\ cthread.pc = "notify"
    /\ cthread.i >= Len(callbacks)
    /\ cthread' = [cthread EXCEPT !.pc = "recv"]
    /\ UNCHANGED <<client_data, callbacks, received, dispatcherVars, pin, pout, panelVars>>

ClientNext ==
    \/ \E c \in CallbackIds : OnUpdate(c)
    \/ \E packet \in ClientDatagrams : ClientRecv(packet)
    \/ ClientNotify
    \/ ClientNotifyDone

ClientSpec == Init /\ [][ClientNext]_vars

(***************************************************************************)
(* RaceControlPanel (race_control_panel/race_control_panel.py)             *)
(*                                                                         *)
(* Time is counted in ticks of 1 / TicksPerSecond seconds; every update()  *)
(* polls the three buttons and reads a clock that has not gone back.       *)
(***************************************************************************)

\* Ticks of the clock in a second
TicksPerSecond == 2

\* IGNITION_HOLD_DURATION = 1.0 seconds
IGNITION_HOLD_DURATION == 1 * TicksPerSecond

\* Most ticks between two updates
MaxDt == 3

\* The clock is followed up to this tick
MaxTime == 6

\* Button.just_pressed
just_pressed(btn) == btn.state /\ ~btn.prev_state

\* Button.is_pressed
is_pressed(btn) == btn.state

\* Panel.update: btn._update(self._js.get_button(btn.index)) for each button
PanelUpdate(polled) ==
    [b \in DOMAIN buttons |-> [state |-> polled[b], prev_state |-> buttons[b].state]]

\* Race mode starts as soon as the ignition is seen pressed
hold_elapsed_at_once(t, since) == t - since >= 0

\* (now - self._ignition_held_since) >= IGNITION_HOLD_DURATION
hold_elapsed(t, since) == t - since >= IGNITION_HOLD_DURATION

\* RaceControlPanel.update
Update(radio, ignition, launch, dt) ==
    /\ now + dt <= MaxTime
    /\ LET btns == PanelUpdate((RADIO :> radio) @@ (IGNITION :> ignition)
                               @@ (LAUNCH_CONTROL :> launch))
           t == now + dt
           launch_btn == btns[LAUNCH_CONTROL]
           ignition_btn == btns[IGNITION]
           radio_btn == btns[RADIO]
           \* if launch_btn.just_pressed: ...
           flipped == just_pressed(launch_btn)
           launch1 == IF flipped THEN ~launch_control_on ELSE launch_control_on
           cleared == flipped /\ ~launch1
           race1 == IF cleared THEN FALSE ELSE race_mode
           since1 == IF cleared THEN NoTime ELSE ignition_held_since
           \* if self._launch_control_on and ignition_btn.is_pressed: ... else: ...
           tracking == launch1 /\ is_pressed(ignition_btn)
           started == tracking /\ since1 = NoTime
           since2 == IF ~tracking THEN NoTime
                     ELSE IF started THEN t ELSE since1
           activated == tracking /\ hold_elapsed(t, since2) /\ ~race1
       IN  /\ buttons' = btns
           /\ now' = t
           /\ launch_control_on' = launch1
           /\ race_mode' = (race1 \/ activated)
           /\ ignition_held_since' = since2
           /\ effects' = (IF just_pressed(radio_btn) THEN {"radio_sound"} ELSE {})
                         \cup (IF started THEN {"engine_sound"} ELSE {})
                         \cup (IF activated THEN {"Popen"} ELSE {})
           /\ pressed_since' = IF ~ignition THEN NoTime
                               ELSE IF pressed_since = NoTime THEN t ELSE pressed_since
    /\ UNCHANGED <<dispatcherVars, pin, pout, clientVars>>

PanelNext ==
    \E radio \in BOOLEAN, ignition \in BOOLEAN, launch \in BOOLEAN, dt \in 0 .. MaxDt :
        Update(radio, ignition, launch, dt)

PanelSpec == Init /\ [][PanelNext]_vars

(***************************************************************************)
(* Claims                                                                  *)
(***************************************************************************)

\* The datagram thread t holds decodes: header, a known kind, a body
Decodes(data) ==
    LET header == parse_header(data)
    IN  /\ header # None
        /\ InParsers(header.packet_type)
        /\ ParseBody(header.packet_type.value, data, header.player_car_index).kind
               \notin {"None", "raise"}

\* The handler loop of thread t has run to its end
DispatchComplete(t) ==
    th[t].pc = "dispatch" /\ th[t].i >= Len(handlers[th[t].key])

\* C1: for a datagram of type T whose header and body decode and with
\* handlers registered for T, _process_packet calls every registered handler
\* exactly once, in registration order, each with the decoded header and the
\* decoded body of that datagram (and never drops such a datagram).
C1_HandlersOnceInOrder ==
    \A t \in Threads :
        /\ DispatchComplete(t) =>
             LET hs == handlers[th[t].key]
                 header == parse_header(th[t].data)
                 body == ParseBody(th[t].key, th[t].data, header.player_car_index)
             IN  /\ Len(hs) >= 1
                 /\ Len(th[t].log) = Len(hs)
                 /\ \A j \in 1 .. Len(hs) :
                      /\ th[t].log[j].handler = hs[j]
                      /\ th[t].log[j].header = header
                      /\ th[t].log[j].body = body
                 /\ header.packet_type.value = th[t].key
        /\ (th[t].pc = "loop" /\ th[t].data # <<>>) =>
             ~(Decodes(th[t].data) /\ th[t].hs0 # <<>>)

C1_Witness ==
    \E t \in Threads :
        /\ DispatchComplete(t)
        /\ Len(th[t].log) = 2
        /\ th[t].log[1].handler # th[t].log[2].handler

\* C2: when a handler raises, the handlers registered after it for the same
\* type are still called for that datagram (the next one has been called, or
\* is the next thing the loop does), and the thread is still inside its
\* handler loop, from where it returns to the receive loop.
C2_RaiseDoesNotStopLaterHandlers ==
    \A t \in Threads :
        \A j \in 1 .. Len(th[t].log) :
            th[t].log[j].outcome = "raise" =>
                /\ t \in Dispatching
                /\ j < Len(handlers[th[t].key]) =>
                     \/ /\ j < Len(th[t].log)
                        /\ th[t].log[j + 1].handler = handlers[th[t].key][j + 1]
                     \/ th[t].pc = "dispatch" /\ th[t].i = j

C2_Witness ==
    \E t \in Threads :
        /\ DispatchComplete(t)
        /\ Len(th[t].log) = 2
        /\ th[t].log[1].outcome = "raise"
        /\ th[t].log[2].outcome = "return"

\* C3: a datagram with a full header whose type code is 15..255 has no
\* handler called for it, also when a handler is registered under that very
\* integer, and the receive thread is back in its loop.
C3_UnknownTypeCallsNoHandler ==
    \A t \in Threads :
        (Len(th[t].data) >= HeaderSize /\ th[t].data[7] \in 15 .. 255) =>
            /\ th[t].pc = "loop"
            /\ th[t].log = <<>>

C3_Witness ==
    \E t \in Threads :
        /\ Len(th[t].data) >= HeaderSize
        /\ th[t].data[7] = 201
        /\ th[t].pc = "loop"
        /\ 201 \in DOMAIN handlers

Called == pout # Pending

\* C4: every car-indexed decoder returns none for every car index below 0 or
\* from 22 on, whatever the buffer.
C4_OutOfRangeIndexIsNone ==
    (Called /\ pin.fn \in CarIndexedDecoders
            /\ (pin.car_index < 0 \/ pin.car_index >= NumCars)) =>
        pout = None

\* Buffers that agree with pin.data on its first 29 bytes
SameHeaderBuffers ==
    {PySlice(pin.data, 0, HeaderSize) \o tail : tail \in {<<>>, <<0>>, <<255, 7>>}}

\* C5: parse_header returns none, and raises nothing, for every buffer of
\* fewer than 29 bytes; for 29 bytes or more it returns a header, the same
\* one for every buffer with the same first 29 bytes.
C5_HeaderOfFirst29Bytes ==
    (Called /\ pin.fn = "parse_header") =>
        /\ pout.kind # "raise"
        /\ Len(pin.data) < 29 => pout = None
        /\ Len(pin.data) >= 29 =>
             /\ pout.kind = "PacketHeader"
             /\ \A other \in SameHeaderBuffers : parse_header(other) = pout

C5_Witness ==
    /\ Called /\ pin.fn = "parse_header"
    /\ Len(pin.data) = RecvSize
    /\ pout.kind = "PacketHeader"

\* C6: for every buffer of at least 29 bytes the header's packet_type equals
\* byte 6 of the buffer: the PacketType member for 0..14, the bare integer
\* for 15..255, and a header is returned in both cases.
C6_TypeCodePreserved ==
    (Called /\ pin.fn = "parse_header" /\ Len(pin.data) >= 29) =>
        /\ pout.kind = "PacketHeader"
        /\ pout.packet_type.value = pin.data[7]
        /\ pin.data[7] <= 14 => pout.packet_type.enum = "PacketType"
        /\ pin.data[7] >= 15 => pout.packet_type.enum = "int"

C6_Witness ==
    /\ Called /\ pin.fn = "parse_header"
    /\ pout.kind = "PacketHeader"
    /\ pout.packet_type = RawInt(15)

\* C7: for a car index in 0..21 a car-indexed decoder with record width W and
\* count prefix p returns none exactly when the buffer is shorter than
\* 29 + p + (index + 1) * W, and never raises.
C7_NoneIffTooShort ==
    (Called /\ pin.fn \in CarIndexedDecoders /\ pin.car_index \in 0 .. 21) =>
        /\ pout.kind # "raise"
        /\ pout = None <=> Len(pin.data) < Required(pin.fn, pin.car_index)

C7_Witness ==
    /\ Called /\ pin.fn = "parse_final_classification"
    /\ pin.car_index = 21
    /\ Len(pin.data) = Required(pin.fn, 21)
    /\ pout.kind = "FinalClassification"

\* The byte at offset k of the record (or body) the call decodes
Wire(k) ==
    IF pin.fn = "parse_session" THEN pin.data[HeaderSize + k + 1]
    ELSE pin.data[HeaderSize + CountPrefix(pin.fn)
                  + pin.car_index * RecordWidth(pin.fn) + k + 1]

\* The field holds the raw value, as the enum's member exactly when the
\* value is one of the enum's
FieldKeeps(field, enum, raw) ==
    /\ field.value = raw
    /\ field.enum = (IF raw \in EnumValues(enum) THEN enum ELSE "int")

Signed8(b) == IF b >= 128 THEN b - 256 ELSE b

\* C8: with any value 0..255 (track id: -128..127) in an enumerated wire
\* field, the decoder returns a record whose field equals the raw value and
\* is the enum member exactly when the value is one the enum defines.
C8_EnumFieldsKeepRawValue ==
    /\ (Called /\ pin.fn = "parse_session" /\ Len(pin.data) >= 29 + 50) =>
         /\ pout.kind = "SessionData"
         /\ FieldKeeps(pout.weather, "Weather", Wire(0))
         /\ FieldKeeps(pout.session_type, "SessionType", Wire(6))
         /\ FieldKeeps(pout.track, "Track", Signed8(Wire(7)))
    /\ (Called /\ pin.fn = "parse_car_status" /\ pin.car_index \in 0 .. 21
               /\ Len(pin.data) >= Required(pin.fn, pin.car_index)) =>
         /\ pout.kind = "CarStatus"
         /\ FieldKeeps(pout.fuel_mix, "FuelMix", Wire(2))
         /\ FieldKeeps(pout.actual_tyre_compound, "TyreCompound", Wire(25))
         /\ FieldKeeps(pout.vehicle_flag, "VehicleFlag", Wire(28))
         /\ FieldKeeps(pout.ers_deploy_mode, "ERSMode", Wire(33))
    /\ (Called /\ pin.fn = "parse_lap_data" /\ pin.car_index \in 0 .. 21
               /\ Len(pin.data) >= Required(pin.fn, pin.car_index)) =>
         /\ pout.kind = "LapData"
         /\ FieldKeeps(pout.pit_status, "PitStatus", Wire(32))
    /\ (Called /\ pin.fn = "parse_participants" /\ pin.car_index \in 0 .. 21
               /\ Len(pin.data) >= Required(pin.fn, pin.car_index)) =>
         /\ pout.kind = "ParticipantData"
         /\ FieldKeeps(pout.team, "Team", Wire(3))

C8_Witness ==
    /\ Called /\ pin.fn = "parse_car_status"
    /\ pout.kind = "CarStatus"
    /\ pout.actual_tyre_compound.enum = "TyreCompound"
    /\ pout.fuel_mix.enum = "int"
    /\ pout.vehicle_flag.enum = "int"

\* C9: start() on a running dispatcher changes nothing: no socket is created
\* or bound, no thread is started, and the running flag, the socket, the
\* thread and the handler table stay as they are.
C9_StartWhileRunningIsNoop ==
    [][(running /\ Start) =>
         UNCHANGED <<handlers, sock, running, thread, th, sockets>>]_vars

C9_Witness == op.name = "start" /\ op.was_running /\ running /\ thread # 0

C11_StopClosesSocket ==
    /\ (op.name = "stop" /\ op.done /\ op.was_running) => (~running /\ sock = 0)
    /\ \A t \in Threads :
         \A j \in 1 .. Len(th[t].log) :
            LET e == th[t].log[j]
            IN  (e.stop # None /\ e.outcome # "running" /\ e.stop.was_running) =>
                    (~e.stop.running /\ e.stop.sock = 0)

\* The start() call of this step made a socket whose bind failed
BindFailed ==
    /\ Len(sockets') = Len(sockets) + 1
    /\ sockets'[Len(sockets')] = "unbound"

\* C12: when the bind fails in start(), the error reaches the caller, and
\* the dispatcher stays stopped: is_running is false and no receive thread is
\* started; start() raises in no other case.
C12_BindFailureLeavesStopped ==
    [][Start =>
         /\ BindFailed => (op'.raised /\ ~running' /\ UNCHANGED <<thread, th>>)
         /\ op'.raised => BindFailed]_vars

C12_Witness ==
    /\ op.name = "start" /\ op.raised
    /\ sock # 0 /\ sockets[sock] = "unbound"
    /\ ~running /\ thread = 0

\* C13: whenever is_running is true (start() is atomic here, so it has
\* completed), the receive thread is in its loop; and a receive thread ends
\* only by reading is_running as false, never on a timeout, a receive error,
\* a dropped datagram or a handler exception.
C13_LoopRunsWhileRunning ==
    /\ [](running => (thread \in Threads /\ th[thread].pc # "exited"))
    /\ [][\A t \in Threads :
            (th[t].pc # "exited" /\ th'[t].pc = "exited") =>
                (~running /\ th[t].pc = "loop")]_vars

C13_Witness ==
    /\ running /\ thread \in Threads
    /\ th[thread].pc = "loop"
    /\ th[thread].data # <<>> /\ Len(th[thread].data) < HeaderSize

C15_RegistrationSkipsCurrentDatagram ==
    \A t \in Threads :
        /\ Len(th[t].log) <= Len(th[t].hs0)
        /\ DispatchComplete(t) =>
             \A j \in 1 .. Len(th[t].hs0) :
                 j <= Len(th[t].log) /\ th[t].log[j].handler = th[t].hs0[j]

\* C16: a handler sees the datagrams of one type in arrival order: when a
\* handler has been called for a datagram, its call for every datagram of
\* that type received earlier and still being dispatched has completed.
C16_HandlersSeeArrivalOrder ==
    \A t \in Threads :
        \A u \in th[t].earlier :
            th[u].key = th[t].key =>
                \A j \in 1 .. Len(th[t].log) :
                    /\ j <= Len(th[u].log)
                    /\ th[u].log[j].outcome # "running"

\* The receive threads that have not ended
Alive == {t \in Threads : th[t].pc # "exited"}

\* The receive threads inside a handler call
InHandler == {t \in Threads : th[t].pc \in {"handler", "hstop"}}

\* C17: at most one receive thread is alive at any time, and no two handler
\* calls overlap.
C17_OneReceiveThread ==
    /\ Cardinality(InHandler) <= 1
    /\ Cardinality(Alive) <= 1

\* C18: the header and body a handler is given hold the values the decoder
\* produced, whatever the handlers called before it for the datagram did.
C18_RecordsKeepDecodedValues ==
    \A t \in Threads :
        \A j \in 1 .. Len(th[t].log) :
            th[t].log[j].seen = [header |-> th[t].header, body |-> th[t].parsed]

\* The buffer with every byte outside the positions lo+1 .. hi changed
OutsideChanged(data, lo, hi, delta) ==
    [k \in 1 .. Len(data) |->
        IF lo < k /\ k <= hi THEN data[k] ELSE (data[k] + delta) % 256]

\* C19: for a car index in 0..21 and a buffer long enough, the record a
\* car-indexed decoder returns depends only on the bytes 29 + p + i*W ..
\* 29 + p + (i+1)*W - 1: a buffer of the same length that agrees on that
\* window and differs in every other byte decodes to the same record.
C19_RecordDependsOnWindowOnly ==
    (Called /\ pin.fn \in CarIndexedDecoders /\ pin.car_index \in 0 .. 21
            /\ Len(pin.data) >= Required(pin.fn, pin.car_index)) =>
        LET hi == Required(pin.fn, pin.car_index)
            lo == hi - RecordWidth(pin.fn)
        IN  /\ pout.kind \notin {"None", "raise"}
            /\ \A delta \in {1, 128, 255} :
                 CallCarIndexed(pin.fn, OutsideChanged(pin.data, lo, hi, delta),
                                pin.car_index) = pout

C19_Witness ==
    /\ Called /\ pin.fn = "parse_lobby_info"
    /\ pin.car_index = 21
    /\ Len(pin.data) = RecvSize
    /\ pout.kind = "LobbyInfo"

\* C20: for a session datagram of at least 79 bytes, whatever
\* num_marshal_zones is, parse_session returns a record with the fields
\* before the marshal zones decoded as usual; with offset = 19 + 21 *
\* num_marshal_zones, safety_car_status is the body byte at offset, or 0 when
\* offset is at or past the end of the body, and network_game is the body
\* byte at offset + 1, or false when that is at or past the end.
C20_TrailingSessionFieldsDefault ==
    (Called /\ pin.fn = "parse_session" /\ Len(pin.data) >= 79) =>
        LET n == Wire(18)
            offset == 19 + 21 * n
            len == Len(pin.data) - HeaderSize
        IN  /\ pout.kind = "SessionData"
            /\ pout.num_marshal_zones = n
            /\ pout.total_laps = Wire(3)
            /\ pout.track_length = Wire(4) + 256 * Wire(5)
            /\ pout.formula = Wire(8)
            /\ pout.session_duration = Wire(11) + 256 * Wire(12)
            /\ pout.pit_speed_limit = Wire(13)
            /\ pout.spectator_car_index = Wire(16)
            /\ pout.sli_pro_support = (Wire(17) # 0)
            /\ offset >= len =>
                 (pout.safety_car_status = 0 /\ pout.network_game = FALSE)
            /\ offset = len - 1 =>
                 (pout.safety_car_status = Wire(offset) /\ pout.network_game = FALSE)
            /\ offset + 1 < len =>
                 /\ pout.safety_car_status = Wire(offset)
                 /\ pout.network_game = (Wire(offset + 1) # 0)

C20_Witness ==
    /\ Called /\ pin.fn = "parse_session"
    /\ 19 + 21 * pin.data[HeaderSize + 19] = Len(pin.data) - HeaderSize - 1
    /\ pout.kind = "SessionData"
    /\ pout.safety_car_status # 0
    /\ pout.network_game = FALSE

\* The byte at offset k of the body of the datagram the call decodes
Body(k) == pin.data[HeaderSize + k + 1]

\* C21: the lap_history of a decoded SessionHistory never has more than 100
\* entries, whatever num_laps is, and has min(num_laps, 100) entries when
\* the body holds that many 11-byte entries after its 7-byte prefix.
C21_LapHistoryClampedTo100 ==
    (Called /\ pin.fn = "parse_session_history" /\ Len(pin.data) >= HeaderSize + 7) =>
        LET n == Body(1)
            want == IF n < 100 THEN n ELSE 100
        IN  /\ pout.kind = "SessionHistory"
            /\ pout.num_laps = n
            /\ Len(pout.lap_history) <= 100
            /\ Len(pin.data) - HeaderSize >= 7 + 11 * want =>
                 Len(pout.lap_history) = want

C21_Witness ==
    /\ Called /\ pin.fn = "parse_session_history"
    /\ Body(1) = 150
    /\ Len(pin.data) = RecvSize
    /\ pout.kind = "SessionHistory"
    /\ Len(pout.lap_history) = 100

\* C22: parse_tyre_sets produces at most 20 entries, and the entry at list
\* position i is fitted exactly when i is the transmitted fitted-set index
\* (body byte 2), whatever the entry's own bytes are; so at most one entry
\* is fitted, and none when the index is not a position of the list.
C22_FittedIsPositionEqualsIndex ==
    (Called /\ pin.fn = "parse_tyre_sets" /\ Len(pin.data) >= HeaderSize + 3) =>
        LET sets == pout.tyre_sets
            fitted == {i \in 1 .. Len(sets) : sets[i].fitted}
        IN  /\ pout.kind = "TyreSetData"
            /\ Len(sets) <= 20
            /\ \A i \in 1 .. Len(sets) : sets[i].fitted <=> (i - 1 = Body(2))
            /\ Cardinality(fitted) <= 1
            /\ Body(2) >= Len(sets) => fitted = {}

C22_Witness ==
    /\ Called /\ pin.fn = "parse_tyre_sets"
    /\ pout.kind = "TyreSetData"
    /\ Len(pout.tyre_sets) = 20
    /\ \E i \in 1 .. 20 : pout.tyre_sets[i].fitted /\ pout.tyre_sets[i].wear # 0

\* C23: parse_time_trial returns none or a TimeTrial whose three data sets
\* are all present and decoded from the 24-byte slices at body offsets 0, 24
\* and 48; it returns none whenever one of the three slices of the body does
\* not decode.
C23_TimeTrialIsAtomic ==
    (Called /\ pin.fn = "parse_time_trial") =>
        LET body == PyTail(pin.data, HeaderSize)
            short == \E k \in 0 .. 2 : Len(PySlice(body, 24 * k, 24 * k + 24)) < 24
            sets == <<pout.player_session_best, pout.personal_best, pout.rival>>
        IN  /\ pout.kind \in {"None", "TimeTrial"}
            /\ short => pout = None
            /\ pout.kind = "TimeTrial" =>
                 \A k \in 0 .. 2 :
                    /\ sets[k + 1].kind = "TimeTrialDataSet"
                    /\ sets[k + 1].car_index = Body(24 * k)
                    /\ sets[k + 1].team_id = Body(24 * k + 1)
                    /\ sets[k + 1].lap_time_ms =
                         <<Body(24 * k + 2) + 256 * Body(24 * k + 3),
                           Body(24 * k + 4) + 256 * Body(24 * k + 5)>>
                    /\ sets[k + 1].traction_control = Body(24 * k + 18)
                    /\ sets[k + 1].valid = (Body(24 * k + 23) # 0)

C23_Witness ==
    /\ Called /\ pin.fn = "parse_time_trial"
    /\ pout.kind = "TimeTrial"
    /\ pout.rival.car_index # pout.player_session_best.car_index

\* The event codes for which parse_event reads a payload
PayloadCodes ==
    {<<70, 84, 76, 80>>, <<82, 84, 77, 84>>, <<84, 77, 80, 84>>, <<82, 67, 87, 78>>,
     <<80, 78, 65, 76>>, <<83, 80, 84, 80>>, <<79, 86, 84, 75>>}

\* C24: for an event datagram with at least 4 body bytes whose code is not
\* FTLP, RTMT, TMPT, RCWN, PNAL, SPTP or OVTK, parse_event returns a record
\* with that code and every other field at its default, whatever bytes follow.
C24_UnknownEventCodeIsMinimalRecord ==
    (Called /\ pin.fn = "parse_event" /\ Len(pin.data) >= HeaderSize + 4
            /\ SubSeq(pin.data, HeaderSize + 1, HeaderSize + 4) \notin PayloadCodes) =>
        /\ pout.kind = "EventData"
        /\ pout.event_code = [utf8 |-> SubSeq(pin.data, HeaderSize + 1, HeaderSize + 4)]
        /\ pout.vehicle_index = 0
        /\ pout.lap_time = [f32bits |-> <<0, 0>>]
        /\ pout.speed = [f32bits |-> <<0, 0>>]
        /\ pout.penalty_type = 0
        /\ pout.infringement_type = 0
        /\ pout.other_vehicle_index = 0
        /\ pout.time = 0
        /\ pout.lap_num = 0
        /\ pout.places_gained = 0

C24_Witness ==
    /\ Called /\ pin.fn = "parse_event"
    /\ Len(pin.data) = HeaderSize + 4 + MaxDetails
    /\ SubSeq(pin.data, HeaderSize + 1, HeaderSize + 4) = <<66, 85, 84, 78>>
    /\ pin.data[HeaderSize + 5] # 0
    /\ pout.kind = "EventData"

\* The body of the last datagram received whose header carries the type
\* code and whose body decodes; none when there is no such datagram
RECURSIVE LatestDecoded(_, _)
LatestDecoded(code, packets) ==
    IF packets = <<>> THEN None
    ELSE LET packet == packets[Len(packets)]
             header == parse_header(packet)
             body == IF header = None THEN None
                     ELSE ParseBody(code, packet, header.player_car_index)
         IN  IF header # None /\ header.packet_type.value = code /\ body # None
             THEN body
             ELSE LatestDecoded(code, SubSeq(packets, 1, Len(packets) - 1))

\* C25: after any sequence of received datagrams, data.session, data.lap,
\* data.telemetry, data.status, data.damage and data.motion each hold the
\* body of the latest datagram of their kind that decoded; a datagram whose
\* body does not decode, and a datagram of another kind, leave them as
\* they were.
C25_DataHoldsLatestDecoded ==
    \A code \in {0, 1, 2, 6, 7, 10} :
        client_data[RetainedField(code)] = LatestDecoded(code, received)

\* The processing of the last datagram received is over
ClientProcessed == received # <<>> /\ cthread.pc = "recv"

\* C27: for every datagram whose header decodes, known kind or not, body
\* decoded or not, every registered callback is called exactly once, in
\* registration order, after data.header (and the retained value, if the
\* body decoded) were set from that datagram, also when an earlier callback
\* raised; a datagram whose header does not decode calls no callback and
\* changes nothing in data.
C27_CallbacksOncePerDatagram ==
    /\ [][(cthread.pc = "notify" /\ cthread'.pc = "recv") =>
            LET header == parse_header(cthread.packet)
                code == header.packet_type.value
                body == ParseBody(code, cthread.packet, header.player_car_index)
                log == cthread'.log
            IN  /\ header # None
                /\ Len(log) = Len(callbacks)
                /\ \A k \in 1 .. Len(callbacks) :
                     /\ log[k].callback = callbacks[k]
                     /\ log[k].seen.header = header
                     /\ (RetainedField(code) # "none" /\ body # None) =>
                           log[k].seen[RetainedField(code)] = body]_vars
    /\ [][Len(received') > Len(received) =>
            IF parse_header(received'[Len(received')]) = None
            THEN client_data' = client_data /\ cthread'.pc = "recv"
                                            /\ cthread'.log = <<>>
            ELSE cthread'.pc = "notify" /\ cthread'.log = <<>>]_vars

C27_Witness ==
    /\ ClientProcessed
    /\ Len(received) = 2
    /\ parse_header(cthread.packet) # None
    /\ parse_header(cthread.packet).packet_type.value = 1
    /\ client_data.session = None
    /\ Len(cthread.log) = 2
    /\ cthread.log[1].outcome = "raise"
    /\ cthread.log[2].outcome = "return"
    /\ parse_header(received[1]) = None

\* C26: once a call of stop() has returned, and until start() is called
\* again, no handler invocation begins, also when the join inside stop()
\* timed out because a handler was still running.
C26_NoHandlerBeginsAfterStop ==
    [][(op.name = "stop" /\ op.done) =>
          ~\E t \in Threads : th[t].pc = "dispatch" /\ th'[t].pc = "handler"]_vars

C29_SerialDecoderAgreesWithCore ==
    (Called /\ pin.fn = "serial_parse_car_telemetry" /\ pin.car_index \in 0 .. 21) =>
        LET i == pin.car_index
            width == (Len(pin.data) - 29) \div 22
            core == parse_car_telemetry(pin.data, i)
        IN  IF i = 0 \/ width = 60
            THEN /\ (pout = None) <=> (core = None)
                 /\ pout # None =>
                      /\ serial_offset(pin.data, i) = 29 + 60 * i
                      /\ pout.kind = "CarTelemetry" /\ core.kind = "CarTelemetry"
                      /\ pout.speed = core.speed
                      /\ pout.throttle = core.throttle
                      /\ pout.steer = core.steer
                      /\ pout.brake = core.brake
                      /\ pout.clutch = core.clutch
                      /\ pout.gear = core.gear
                      /\ pout.engine_rpm = core.engine_rpm
            ELSE serial_offset(pin.data, i) # 29 + 60 * i

C29_Witness ==
    /\ Called /\ pin.fn = "serial_parse_car_telemetry"
    /\ pin.car_index = 21
    /\ Len(pin.data) = HeaderSize + 22 * 60 + 1
    /\ pout.kind = "CarTelemetry"
    /\ pout.speed = pin.data[HeaderSize + 60 * 21 + 1] + 256 * pin.data[HeaderSize + 60 * 21 + 2]

\* C30: after every update(), race mode implies launch control on; race
\* mode turns on only in an update where launch control is on and the
\* ignition has been seen pressed in every update since one at least 1.0 s
\* earlier; the automation script is spawned in exactly the updates in which
\* race mode goes from off to on; and race mode turns off only in an update
\* where launch control flips to off.
C30_RaceModeFollowsLaunchAndHold ==
    /\ [](race_mode => launch_control_on)
    /\ [][(~race_mode /\ race_mode') =>
            /\ launch_control_on'
            /\ buttons'[IGNITION].state
            /\ pressed_since' # NoTime
            /\ now' - pressed_since' >= 1 * TicksPerSecond]_vars
    /\ [][("Popen" \in effects') <=> (~race_mode /\ race_mode')]_vars
    /\ [][(race_mode /\ ~race_mode') =>
            (launch_control_on /\ ~launch_control_on')]_vars

C30_Witness ==
    /\ race_mode /\ launch_control_on
    /\ ~buttons[IGNITION].state
    /\ ignition_held_since = NoTime
    /\ effects = {}

====
